---- MODULE Spec2Model ----
(***************************************************************************)
(* A model of the verax validation engine (package verax): the value       *)
(* classifier, the rules, the Validate dispatcher and ValidateStruct.      *)
(*                                                                         *)
(* Go strings that the code only compares are TLA+ strings; Go strings     *)
(* the code cuts, joins or formats (struct tags, field names, error path   *)
(* keys) are sequences of one-character strings.                           *)
(***************************************************************************)
EXTENDS Integers, Sequences, FiniteSets, TLC

VARIABLES
    op,       \* which entry point this behaviour exercises
    dv0,      \* Validate: the value the caller passed
    drules0,  \* Validate: the rules the caller passed
    dv,       \* Validate: the value of the current (tail) call
    drules,   \* Validate: the rules of the current call
    dpc,      \* Validate: position in the function
    di,       \* Validate: index of the next rule of the loop
    dk,       \* validateMap/validateSlice: position of the next element
    ders,     \* validateMap/validateSlice: the xrr.Fields being filled
    dres,     \* Validate: the returned error
    dlog,     \* Validate: calls made so far (history)
    rrule,    \* rule customization: the rule value built so far
    rwhen,    \* rule customization: argument of the last When call (history)
    rval,     \* rule customization: the validated value
    rres,     \* rule customization: result of rule.Validate(value)
    rsteps,   \* rule customization: number of customization calls made
    rpc,      \* rule customization: position
    rhist,    \* rule customization: the calls made, each with the rule it was made on (history)
    sin,      \* ValidateStruct: the v argument
    sfields,  \* ValidateStruct: the bindings
    spc,      \* ValidateStruct: position in the function
    si,       \* ValidateStruct: index of the binding processed next
    sers,     \* ValidateStruct: the xrr.Fields being filled
    sres,     \* ValidateStruct: the returned error
    slog,     \* ValidateStruct: per binding, the field found and the error (history)
    ErrorTag, \* the package variable ErrorTag
    nreg,     \* Named: the map, name -> rule
    nhist,    \* Named: the Set calls made so far (history)
    nmode,    \* Named: the retrieval method called last
    nname,    \* Named: the name it was called with
    nres,     \* Named: the rule it returned
    heap,     \* bindings made by Key and Field, by address (*KeyRules, *FieldRules)
    hmap,     \* the Map rules built from the key bindings: the addresses they hold
    hcall,    \* the last method call on a binding or a Map rule (history)
    cv,       \* classification: the value handed to IsEmpty and IsNil
    cfn,      \* classification: the function called
    cout      \* classification: what it returned

dvars == <<dv0, drules0, dv, drules, dpc, di, dk, ders, dres, dlog>>
rvars == <<rrule, rwhen, rval, rres, rsteps, rpc, rhist>>
svars == <<sin, sfields, spc, si, sers, sres, slog, ErrorTag>>
nvars == <<nreg, nhist, nmode, nname, nres>>
hvars == <<heap, hmap, hcall>>
cvars == <<cv, cfn, cout>>
vars == <<op, dvars, rvars, svars, nvars, hvars, cvars>>

(***************************************************************************)
(* Bounds of the model.                                                    *)
(***************************************************************************)
MaxRules == 2
MaxSteps == 2
MaxKeys == 2
MaxSets == 2
MaxBindings == 2

(***************************************************************************)
(* Error codes and errors (xrr leaf errors carry a message and a code).    *)
(***************************************************************************)
ECInternal == "ECInternal"
ECInvType == "ECInvType"
ECUnkRule == "ECUnkRule"
ECRequired == "ECRequired"
ECReqNotEmpty == "ECReqNotEmpty"
ECReqNotNil == "ECReqNotNil"
ECReqNil == "ECReqNil"
ECReqEmpty == "ECReqEmpty"
ECNotEqual == "ECNotEqual"
ECEqual == "ECEqual"
ECInvIn == "ECInvIn"
ECInvLength == "ECInvLength"
ECInvMatch == "ECInvMatch"
ECInvThreshold == "ECInvThreshold"
ECInvDynamic == "ECInvDynamic"
ECGeneric == "ECGeneric"

NoErr == [kind |-> "nil"]
Panic == [kind |-> "panic"]
Leaf(msg, code) == [kind |-> "leaf", msg |-> msg, code |-> code]
Wrap(err, code) == [kind |-> "wrap", code |-> code, inner |-> err]
Fields(f) == [kind |-> "fields", fields |-> f]
\* xrr.New(fmt.Sprintf("%s: %s", name, err), code)
Prefixed(name, err, code) ==
    [kind |-> "prefixed", name |-> name, inner |-> err, code |-> code]
NoFields == [k \in {} |-> NoErr]

ErrInvSetup == Leaf("invalid setup", ECInternal)
ErrInvType == Leaf("unexpected value type", ECInvType)
ErrUnkRule == Leaf("unknown rule", ECUnkRule)
ErrReq == Leaf("cannot be blank", ECRequired)
ErrReqNotEmpty == Leaf("cannot be blank", ECReqNotEmpty)
ErrReqNotNil == Leaf("is required", ECReqNotNil)
ErrReqNil == Leaf("must be blank", ECReqNil)
ErrReqEmpty == Leaf("must be blank", ECReqEmpty)
ErrNotEqual == Leaf("not equal", ECNotEqual)
ErrNotIn == Leaf("must be in the list", ECInvIn)
ErrIn == Leaf("must not be in the list", ECInvIn)
ErrInvMatch == Leaf("must be in a valid format", ECInvMatch)
ErrExpType == Leaf("not expected value type", ECInvType)
ErrInvDynamic == Leaf("dynamic function must be set", ECInvDynamic)
ErrReqLengthEmpty == Leaf("the value must be empty", ECReqEmpty)
ErrNotMapPtr == Leaf("only a map can be validated", ECInternal)
ErrInvKeyType == Leaf("key not the correct type", ECInternal)
ErrKeyMissing == Leaf("required key is missing", "ECMapKeyMissing")
ErrKeyUnexpected == Leaf("key not expected", "ECMapKeyUnexpected")
ErrNotIterable == Leaf("must be an iterable", ECInvType)
ErrNotStructPtr == Leaf("only a pointer to a struct can be validated", ECInternal)
ErrFieldNotFound(i) == [kind |-> "ErrFieldNotFound", idx |-> i, code |-> ECInternal]
ErrFieldPointer(i) == [kind |-> "ErrFieldPointer", idx |-> i, code |-> ECInternal]
\* Errors of the callers: the tests' ErrTst, ErrRule("error") and InternalErrRule.
ErrTst == Leaf("tst msg", "ETstCode")
ErrCustom == Leaf("error", ECGeneric)
ErrInternalRule == Leaf("internal error", ECInternal)

\* xrr.GetCode: the code an error carries; an error without one is generic.
GetCode(err) ==
    IF err.kind \in {"leaf", "wrap", "prefixed", "ErrFieldNotFound", "ErrFieldPointer"}
    THEN err.code
    ELSE ECGeneric

setCode(err, code) ==
    IF err = NoErr THEN NoErr
    ELSE IF code = "" THEN err
    ELSE IF GetCode(err) = code THEN err
    ELSE Wrap(err, code)

\* xrr.Fields.Filter: drops the nil entries; nil when nothing is left.
FieldsFilter(f) ==
    LET keep == {k \in DOMAIN f : f[k] # NoErr}
    IN IF keep = {} THEN NoErr ELSE Fields([k \in keep |-> f[k]])

\* ers[key] = err
Put(ers, key, err) ==
    [k \in DOMAIN ers \cup {key} |-> IF k = key THEN err ELSE ers[k]]

\* An aggregation that returns its Fields even when nothing was stored.
ErsResultAlways(ers) == Fields(ers)

\* if len(ers) > 0 { return ers }; return nil
ErsResult(ers) == IF DOMAIN ers # {} THEN Fields(ers) ELSE NoErr

(***************************************************************************)
(* Go values.  A value handed over as `any` is a record:                   *)
(*   kind   reflect.Kind of the dynamic value ("invalid": the untyped nil) *)
(*   typ    the dynamic type, as the sequence of its constructors          *)
(*   isnil  a nil pointer, slice, map, chan or func                        *)
(*   n      the integer of an int, the length of a string, the number of   *)
(*          declared fields of a struct                                    *)
(*   s      the text of a string                                           *)
(*   caps   the method sets and static facts the code asks about           *)
(*   elems  the pointee of a pointer; the elements of a container; an      *)
(*          element slot of interface type holds a value or the untyped nil*)
(*   keys   the keys of a map, aligned with elems                          *)
(*   self   what the value's own Validate() returns                        *)
(*   under  what the value's Value() returns (driver.Valuer), when it      *)
(*          returns no error                                               *)
(***************************************************************************)
Val(kind, typ, isnil, n, s, caps, elems, keys, self) ==
    [kind |-> kind, typ |-> typ, isnil |-> isnil, n |-> n, s |-> s,
     caps |-> caps, elems |-> elems, keys |-> keys, self |-> self,
     under |-> <<>>]

NilV == Val("invalid", <<"nil">>, TRUE, 0, "", {}, <<>>, <<>>, NoErr)
IntV(n) == Val("int", <<"int">>, FALSE, n, "", {}, <<>>, <<>>, NoErr)
StrV(s, n) == Val("string", <<"string">>, FALSE, n, s, {}, <<>>, <<>>, NoErr)
PtrTo(v) == Val("ptr", <<"*">> \o v.typ, FALSE, 0, "", {}, <<v>>, <<>>, NoErr)
NilPtr(typ) == Val("ptr", <<"*">> \o typ, TRUE, 0, "", {}, <<>>, <<>>, NoErr)
SliceOf(typ, elemCaps, elems) ==
    Val("slice", <<"[]">> \o typ, FALSE, Len(elems), "", elemCaps, elems, <<>>, NoErr)
ArrayOf(typ, elemCaps, elems) ==
    Val("array", <<"[n]">> \o typ, FALSE, Len(elems), "", elemCaps, elems, <<>>, NoErr)
MapOf(typ, elemCaps, keys, elems) ==
    Val("map", <<"map">> \o typ, FALSE, Len(elems), "", elemCaps, elems, keys, NoErr)
WithSelf(v, caps, self) == [v EXCEPT !.caps = @ \cup caps, !.self = self]

\* Map keys: an int or a string; a map keyed by `any` may hold both.
IntKey(n) == [kind |-> "int", n |-> n, s |-> <<>>]
StrKey(s) == [kind |-> "string", n |-> 0, s |-> s]

Digits == <<"0", "1", "2", "3", "4", "5", "6", "7", "8", "9">>
RECURSIVE Itoa(_)
\* strconv.Itoa for the non-negative indices of a slice.
Itoa(n) ==
    IF n < 10 THEN <<Digits[n + 1]>>
    ELSE Itoa(n \div 10) \o <<Digits[(n % 10) + 1]>>

\* fmt.Sprintf("%v", key): decimal digits of an int, the text of a string.
SprintfV(key) == IF key.kind = "int" THEN Itoa(key.n) ELSE key.s

(***************************************************************************)
(* The values of the tests (all_test.go): ModelPtr and ModelVal validate   *)
(* themselves (FStr must be "abc"), ModelVW intercepts every rule.         *)
(***************************************************************************)
FStr == <<"F", "S", "t", "r">>
ErrMustAbc == Leaf("must be 'abc'", "ECMustAbc")
ErrFStrBlank == Fields((FStr :> ErrReq))
ErrFStrAbc == Fields((FStr :> ErrMustAbc))

StrAbc == StrV("abc", 3)
StrXyz == StrV("xyz", 3)
StrEmpty == StrV("", 0)
StructOf(typ, nfields, fstr) ==
    Val("struct", typ, FALSE, nfields, "", {}, <<fstr>>, <<>>, NoErr)
\* ModelVal{fstr}: Validate() has a value receiver.
ModelVal(fstr, self) ==
    WithSelf(StructOf(<<"ModelVal">>, 1, fstr), {"Validator"}, self)
ModelValOk == ModelVal(StrAbc, NoErr)
ModelValBad == ModelVal(StrXyz, ErrFStrAbc)
ModelValBlank == ModelVal(StrEmpty, ErrFStrBlank)
\* &ModelPtr{fstr}: Validate() has a pointer receiver.
ModelPtr(fstr, self) ==
    WithSelf(PtrTo(StructOf(<<"ModelPtr">>, 1, fstr)), {"Validator"}, self)
ModelPtrOk == ModelPtr(StrAbc, NoErr)
ModelPtrBad == ModelPtr(StrXyz, ErrFStrAbc)
ModelPtrBlank == ModelPtr(StrEmpty, ErrFStrBlank)
\* (*ModelPtr)(nil): its Validate() takes &m.FStr of a nil m and panics.
ModelPtrNil == WithSelf(NilPtr(<<"ModelPtr">>), {"Validator"}, Panic)
\* A Validator whose Validate() reports library misuse.
ModelPtrInternal == ModelPtr(StrXyz, ErrInternalRule)
\* &ModelVW{value}: ValidateWith hands the rule m.value, or rejects it
\* outright when value is "too_long".
ModelVW(value) ==
    WithSelf(PtrTo(StructOf(<<"ModelVW">>, 1, value)), {"WithValidator"}, NoErr)
ModelVWAbc == ModelVW(StrAbc)
ModelVWEmpty == ModelVW(StrEmpty)
ModelVWTooLong == ModelVW(StrV("too_long", 8))
\* A struct without methods, and the struct without fields.
TwoStr == StructOf(<<"TwoStr">>, 2, StrAbc)
StructEmpty == Val("struct", <<"tStructEmpty">>, FALSE, 0, "", {}, <<>>, <<>>, NoErr)

ElemV == {"ElemValidator"}
ElemI == {"ElemValidator", "ElemInterface"}
SliceBadOkBad == SliceOf(<<"*", "ModelPtr">>, ElemV, <<ModelPtrBad, ModelPtrOk, ModelPtrBlank>>)
SliceAllOk == SliceOf(<<"*", "ModelPtr">>, ElemV, <<ModelPtrOk, ModelPtrOk>>)
SliceNone == SliceOf(<<"*", "ModelPtr">>, ElemV, <<>>)
SliceNilPtr == SliceOf(<<"*", "ModelPtr">>, ElemV, <<ModelPtrNil, ModelPtrBad>>)
SliceInternal == SliceOf(<<"*", "ModelPtr">>, ElemV, <<ModelPtrBad, ModelPtrInternal>>)
\* []Validator{nil, &ModelPtr{"xyz"}}: the element type is an interface.
SliceIface == SliceOf(<<"Validator">>, ElemI, <<NilV, ModelPtrBad>>)
SliceStr == SliceOf(<<"string">>, {}, <<StrAbc, StrEmpty>>)
SliceAny == SliceOf(<<"any">>, {"ElemInterface"}, <<ModelPtrBad, NilV>>)
ArrayVal == ArrayOf(<<"ModelVal">>, ElemV, <<ModelValBad, ModelValOk>>)
MapIntBad ==
    MapOf(<<"int", "*", "ModelPtr">>, ElemV, <<IntKey(0), IntKey(14)>>,
          <<ModelPtrBad, ModelPtrBlank>>)
MapIntOk ==
    MapOf(<<"int", "*", "ModelPtr">>, ElemV, <<IntKey(0), IntKey(4)>>,
          <<ModelPtrOk, ModelPtrOk>>)
MapStrMixed ==
    MapOf(<<"string", "ModelVal">>, ElemV, <<StrKey(<<"a">>), StrKey(<<"b">>)>>,
          <<ModelValOk, ModelValBad>>)
\* map[any]*ModelPtr{1: ..., "1": ...}: two keys that print alike.
MapAnyAlike ==
    MapOf(<<"any", "*", "ModelPtr">>, ElemV, <<IntKey(1), StrKey(<<"1">>)>>,
          <<ModelPtrBad, ModelPtrBlank>>)
MapStrStr ==
    MapOf(<<"string", "string">>, {}, <<StrKey(<<"a">>)>>, <<StrAbc>>)
\* type Models []*ModelPtr with its own Validate(): a container Validator.
ModelsSelf == WithSelf(SliceBadOkBad, {"Validator"}, ErrCustom)
\* type NilMap map[string]*ModelPtr with Validate(), holding a nil map.
NilMapSelf ==
    [MapOf(<<"string", "*", "ModelPtr">>, ElemV \cup {"Validator"}, <<>>, <<>>)
        EXCEPT !.isnil = TRUE, !.self = ErrCustom]

(***************************************************************************)
(* The value classifier.                                                   *)
(***************************************************************************)
\* reflect.Chan .. reflect.Slice: chan, func, interface, map, pointer, slice.
RefKinds == {"chan", "func", "interface", "map", "ptr", "slice"}

\* IsNil returns <<isNil, isWrapped>>.
IsNil(v) ==
    IF v.kind = "invalid" THEN <<TRUE, FALSE>>
    ELSE IF v.kind \in RefKinds THEN <<v.isnil, TRUE>>
    ELSE <<FALSE, FALSE>>

\* A classifier that knows the nil case only.
IsEmptyNilOnly(v) == IsNil(v)[1]

RECURSIVE IsEmpty(_)
IsEmpty(v) ==
    IF IsNil(v)[1] THEN TRUE
    ELSE IF "IsZeroTrue" \in v.caps THEN TRUE
    ELSE IF "IsZeroFalse" \in v.caps THEN FALSE
    ELSE IF "Valuer" \in v.caps /\ v.under # <<>> THEN IsEmpty(v.under[1])
    ELSE IF v.kind \in {"string", "array", "map", "slice"} THEN v.n = 0
    ELSE IF v.kind = "ptr" THEN IsEmpty(v.elems[1])
    ELSE IF v.kind = "struct" THEN v.n = 0
    ELSE IF v.kind \in {"int", "bool"} THEN v.n = 0
    ELSE FALSE

RECURSIVE Indirect(_)
Indirect(v) ==
    IF IsNil(v)[1] THEN NilV
    ELSE IF "Valuer" \in v.caps /\ v.under # <<>> THEN v.under[1]
    ELSE IF v.kind = "ptr" THEN Indirect(v.elems[1])
    ELSE v

\* An accessor that follows pointers down to the value.
getInterfaceIndirect(slot, isIface) == Indirect(slot)

\* getInterface: the element in a container slot as `any`. A slot of pointer
\* type holding nil becomes the untyped nil; a slot of interface type holds
\* the untyped nil already, or a value that is returned as it is.
getInterface(slot, isIface) ==
    IF ~isIface /\ slot.kind = "ptr" /\ slot.isnil THEN NilV ELSE slot

BytesType == <<"[]", "uint8">>

\* EnsureString returns [s, err]; asking the type of the untyped nil panics.
EnsureString(v) ==
    IF v.kind = "string" THEN [s |-> v.s, err |-> NoErr]
    ELSE IF v.kind = "invalid" THEN [s |-> "", err |-> Panic]
    ELSE IF v.typ = BytesType THEN [s |-> v.s, err |-> NoErr]
    ELSE [s |-> "", err |-> Leaf("must be either a string or byte slice", ECInvType)]

\* StringOrBytes returns [isString, isBytes, s].
StringOrBytes(v) ==
    IF v.kind = "string" THEN [isString |-> TRUE, isBytes |-> FALSE, s |-> v.s]
    ELSE IF v.kind = "slice" /\ v.typ = BytesType
    THEN [isString |-> FALSE, isBytes |-> TRUE, s |-> v.s]
    ELSE [isString |-> FALSE, isBytes |-> FALSE, s |-> ""]

\* LengthOfValue returns [n, err].
LengthOfValue(v) ==
    IF v.kind \in {"string", "slice", "map", "array"}
    THEN [n |-> v.n, err |-> NoErr]
    ELSE [n |-> 0, err |-> Leaf("cannot get the length", ECInvType)]

\* ToInt returns [n, err].
ToInt(v) ==
    IF v.kind = "int" THEN [n |-> v.n, err |-> NoErr]
    ELSE [n |-> 0, err |-> Leaf("cannot convert to int64", ECInvType)]

\* cmp.Compare
Compare(a, b) == IF a < b THEN -1 ELSE IF a > b THEN 1 ELSE 0

\* compareInt returns [res, err].
compareInt(want, have) ==
    LET w == ToInt(want)
        h == ToInt(have)
    IN IF w.err # NoErr THEN [res |-> 0, err |-> w.err]
       ELSE IF h.err # NoErr THEN [res |-> 0, err |-> h.err]
       ELSE [res |-> Compare(w.n, h.n), err |-> NoErr]

\* compareFor: the comparison function for a threshold, "nil" when its type
\* is not supported.
compareFor(v) == IF v.kind = "int" THEN "compareInt" ELSE "nil"

\* Calling a CompareFunc value: compareInt, or the caller's function that
\* rejects every pair of values; calling the nil function panics.
CallCompare(fn, want, have) ==
    IF fn = "compareInt" THEN compareInt(want, have)
    ELSE IF fn = "cmpReject" THEN [res |-> 0, err |-> ErrTst]
    ELSE [res |-> 0, err |-> Panic]

greaterThan == 0
greaterEqualThan == 1
lessThan == 2
lessEqualThan == 3

thresholdOutcome(operator, result) ==
    IF operator = greaterThan THEN result = -1
    ELSE IF operator = greaterEqualThan THEN result <= 0
    ELSE IF operator = lessThan THEN result = 1
    ELSE IF operator = lessEqualThan THEN result >= 0
    ELSE FALSE

\* thresholdError: the template's text with the threshold, under the code.
thresholdError(th, tpl, code) ==
    [kind |-> "leaf", msg |-> tpl, th |-> th.n, code |-> code]

\* buildLengthRuleError
buildLengthRuleError(minimum, maximum, code) ==
    IF minimum = 0 /\ maximum > 0
    THEN [kind |-> "leaf", msg |-> "the length must be no more than",
          mm |-> <<minimum, maximum>>, code |-> code]
    ELSE IF minimum > 0 /\ maximum = 0
    THEN [kind |-> "leaf", msg |-> "the length must be no less than",
          mm |-> <<minimum, maximum>>, code |-> code]
    ELSE IF minimum > 0 /\ maximum > 0
    THEN IF minimum = maximum
         THEN [kind |-> "leaf", msg |-> "the length must be exactly",
               mm |-> <<minimum, maximum>>, code |-> code]
         ELSE [kind |-> "leaf", msg |-> "the length must be between",
               mm |-> <<minimum, maximum>>, code |-> code]
    ELSE ErrReqLengthEmpty

\* Calling a RuleFunc value: Noop's function, the tests' StrRuleFunc("abc"),
\* ErrRule("error") and InternalErrRule, a function that returns an error
\* unless it is given a pointer (Test_Each asserts v.(*TStruct)); calling
\* the nil function panics.
CallRuleFunc(fn, v) ==
    IF fn = "noop" THEN NoErr
    ELSE IF fn = "StrAbc"
    THEN IF IsNil(v)[1] THEN NoErr
         ELSE IF Indirect(v).kind = "string" /\ Indirect(v).s = "abc" THEN NoErr
         ELSE ErrMustAbc
    ELSE IF fn = "ErrRule" THEN ErrCustom
    ELSE IF fn = "Internal" THEN ErrInternalRule
    ELSE IF fn = "errFn" THEN ErrInvDynamic
    ELSE IF fn = "PtrOnly" THEN IF v.kind = "ptr" THEN NoErr ELSE ErrCustom
    ELSE Panic

\* Calling a ValidStringFunc value: the tests' checkString("abc").
CallStringFunc(fn, str) == IF fn = "checkAbc" THEN str = "abc" ELSE FALSE

\* regexp.MatchString for the pattern ^abc$.
MatchString(rx, str) == rx = "^abc$" /\ str = "abc"

(***************************************************************************)
(* The rules.  A rule is a record of the fields of its Go struct, tagged   *)
(* with `kind`.  Function-valued fields hold the name of the function.     *)
(***************************************************************************)
Skip == [kind |-> "skip", condition |-> TRUE]
Required == [kind |-> "required", condition |-> TRUE, skipNil |-> FALSE, err |-> ErrReq]
NotEmpty ==
    [kind |-> "required", condition |-> TRUE, skipNil |-> TRUE, err |-> ErrReqNotEmpty]
Nil == [kind |-> "absent", condition |-> TRUE, skipNil |-> FALSE, err |-> ErrReqNil]
Empty == [kind |-> "absent", condition |-> TRUE, skipNil |-> TRUE, err |-> ErrReqEmpty]
NotNil == [kind |-> "notNil", condition |-> TRUE, err |-> ErrReqNotNil]
Equal(want) ==
    [kind |-> "equal", want |-> want, condition |-> TRUE, compare |-> "DeepEqual",
     err |-> [kind |-> "leaf", msg |-> "must be equal to", want |-> want,
              code |-> ECNotEqual]]
NotEqual(want) ==
    [kind |-> "equal", want |-> want, condition |-> TRUE, compare |-> "notEqual",
     err |-> [kind |-> "leaf", msg |-> "must not be equal to", want |-> want,
              code |-> ECEqual]]
EqualBy(want, fn) ==
    [kind |-> "equal", want |-> want, condition |-> TRUE, compare |-> fn,
     err |-> [kind |-> "leaf", msg |-> "must be equal to", want |-> want,
              code |-> ECEqual]]
In(elements) ==
    [kind |-> "in", elements |-> elements, condition |-> TRUE, in |-> TRUE,
     err |-> ErrNotIn]
NotIn(elements) ==
    [kind |-> "in", elements |-> elements, condition |-> TRUE, in |-> FALSE,
     err |-> ErrIn]
Length(minimum, maximum) ==
    [kind |-> "length", min |-> minimum, max |-> maximum, condition |-> TRUE,
     rune |-> FALSE, err |-> buildLengthRuleError(minimum, maximum, ECInvLength)]
RuneLength(minimum, maximum) == [Length(minimum, maximum) EXCEPT !.rune = TRUE]
Match(re) == [kind |-> "match", rx |-> re, condition |-> TRUE, err |-> ErrInvMatch]
String(fn) == [kind |-> "string", fn |-> fn, condition |-> TRUE, err |-> ErrNotEqual]
TypeOf(v) == [kind |-> "type", typ |-> v.typ, condition |-> TRUE, err |-> ErrExpType]
Min(minimum) ==
    [kind |-> "threshold", threshold |-> minimum, operator |-> greaterEqualThan,
     with |-> compareFor(minimum), condition |-> TRUE,
     errTpl |-> "must be no less than", err |-> NoErr, code |-> ECInvThreshold]
Max(maximum) ==
    [kind |-> "threshold", threshold |-> maximum, operator |-> lessEqualThan,
     with |-> compareFor(maximum), condition |-> TRUE,
     errTpl |-> "must be no greater than", err |-> NoErr, code |-> ECInvThreshold]
By(fn) == [kind |-> "by", fn |-> fn, condition |-> TRUE, err |-> NoErr, code |-> ""]
Noop == By("noop")
Dynamic ==
    [kind |-> "dynamic", by |-> "errFn", condition |-> TRUE, err |-> NoErr, code |-> ""]
Error(err) == [kind |-> "error", condition |-> TRUE, err |-> err]

\* When(condition, rules...) and WhenRule.Else(rules...)
When(condition, rules) ==
    [kind |-> "when", condition |-> condition, rules |-> rules, elseRules |-> <<>>,
     err |-> NoErr, code |-> ""]
Else(r, rules) == [r EXCEPT !.elseRules = rules]
\* Set{rules...}
Set(rules) == [kind |-> "set", rules |-> rules]
\* Each(rules...)
Each(rules) == [kind |-> "each", rules |-> rules]

\* Key(key, rules...), (*KeyRules).Optional() and RequiredWhen(condition)
Key(key, rules) == [key |-> key, optional |-> FALSE, rules |-> rules]
Optional(kr) == [kr EXCEPT !.optional = TRUE]
RequiredWhen(kr, condition) == [kr EXCEPT !.optional = ~condition]

RECURSIVE lastPerKey(_, _)
\* kr[k.key] = k for every binding in turn: the last binding of a key stays.
\* The keys of the Go map are met in no specified order; the sequence kept
\* here is the order of the run.
lastPerKey(keys, i) ==
    IF i > Len(keys) THEN <<>>
    ELSE IF \E j \in (i + 1)..Len(keys) : keys[j].key = keys[i].key
    THEN lastPerKey(keys, i + 1)
    ELSE <<keys[i]>> \o lastPerKey(keys, i + 1)

\* Map(keys...) and MapRule.AllowUnknown()
Map(keys) == [kind |-> "map", keys |-> lastPerKey(keys, 1), allowUnknown |-> FALSE]
AllowUnknown(r) == [r EXCEPT !.allowUnknown = TRUE]

skipRuleValidate(r, v) == NoErr

requiredRuleValidate(r, v) ==
    IF ~r.condition THEN NoErr
    ELSE IF r.skipNil /\ IsNil(v)[1] THEN NoErr
    ELSE IF IsEmpty(v) THEN r.err
    ELSE NoErr

absentRuleValidate(r, v) ==
    IF ~r.condition THEN NoErr
    ELSE IF ~IsNil(v)[1] /\ (~r.skipNil \/ ~IsEmpty(v)) THEN r.err
    ELSE NoErr

notNilRuleValidate(r, v) ==
    IF ~r.condition THEN NoErr
    ELSE IF IsNil(v)[1] THEN r.err
    ELSE NoErr

\* Calling the compare field of an EqualRule: reflect.DeepEqual, notEqual;
\* calling the nil function panics.
EqualRuleValidate(r, v) ==
    IF ~r.condition THEN NoErr
    ELSE IF r.compare = "DeepEqual" THEN (IF r.want = v THEN NoErr ELSE r.err)
    ELSE IF r.compare = "notEqual" THEN (IF r.want # v THEN NoErr ELSE r.err)
    ELSE Panic

RECURSIVE inRule(_, _, _)
\* InRule.inRule over the elements from position i on.
inRule(r, v, i) ==
    IF i > Len(r.elements) THEN r.err
    ELSE IF v.typ # r.elements[i].typ THEN setCode(ErrInvType, GetCode(r.err))
    ELSE IF r.elements[i] = v THEN NoErr
    ELSE inRule(r, v, i + 1)

RECURSIVE notInRule(_, _, _)
\* InRule.notInRule over the elements from position i on.
notInRule(r, v, i) ==
    IF i > Len(r.elements) THEN NoErr
    ELSE IF v.typ # r.elements[i].typ THEN setCode(ErrInvType, GetCode(r.err))
    ELSE IF r.elements[i] = v THEN r.err
    ELSE notInRule(r, v, i + 1)

InRuleValidate(r, v) ==
    IF ~r.condition THEN NoErr
    ELSE IF IsNil(v)[1] THEN NoErr
    ELSE IF IsEmpty(v) THEN NoErr
    ELSE IF r.in THEN inRule(r, Indirect(v), 1)
    ELSE notInRule(r, Indirect(v), 1)

\* The rune count of the model's strings equals their length.
LengthRuleValidate(r, v) ==
    IF ~r.condition THEN NoErr
    ELSE IF IsNil(v)[1] THEN NoErr
    ELSE IF IsEmpty(v) THEN NoErr
    ELSE LET val == Indirect(v)
             lv == IF val.kind = "string" /\ r.rune
                   THEN [n |-> val.n, err |-> NoErr]
                   ELSE LengthOfValue(val)
         IN IF lv.err # NoErr THEN lv.err
            ELSE IF \/ r.min > 0 /\ lv.n < r.min
                    \/ r.max > 0 /\ lv.n > r.max
                    \/ r.min = 0 /\ r.max = 0 /\ lv.n > 0
            THEN r.err
            ELSE NoErr

\* A MatchRule that looks at its regexp before it looks at its condition.
MatchRuleValidateSetupFirst(r, v) ==
    IF r.rx = "nil" THEN ErrInvSetup
    ELSE IF ~r.condition THEN NoErr
    ELSE IF IsNil(v)[1] THEN NoErr
    ELSE IF IsEmpty(v) THEN NoErr
    ELSE r.err

MatchRuleValidate(r, v) ==
    IF ~r.condition THEN NoErr
    ELSE IF IsNil(v)[1] THEN NoErr
    ELSE IF IsEmpty(v) THEN NoErr
    ELSE IF r.rx = "nil" THEN ErrInvSetup
    ELSE LET sb == StringOrBytes(Indirect(v))
         IN IF sb.isString /\ (sb.s = "" \/ MatchString(r.rx, sb.s)) THEN NoErr
            ELSE IF sb.isBytes /\ (sb.s = "" \/ MatchString(r.rx, sb.s)) THEN NoErr
            ELSE r.err

StringRuleValidate(r, v) ==
    IF ~r.condition THEN NoErr
    ELSE IF IsNil(v)[1] THEN NoErr
    ELSE IF IsEmpty(v) THEN NoErr
    ELSE LET es == EnsureString(Indirect(v))
         IN IF es.err # NoErr THEN es.err
            ELSE IF r.fn = "nil" THEN Panic
            ELSE IF CallStringFunc(r.fn, es.s) THEN NoErr
            ELSE r.err

TypeRuleValidate(r, v) ==
    IF ~r.condition THEN NoErr
    ELSE IF IsNil(v)[1] THEN NoErr
    ELSE IF r.typ # v.typ THEN r.err
    ELSE NoErr

ThresholdRuleValidate(r, v) ==
    IF ~r.condition THEN NoErr
    ELSE IF r.with = "nil" THEN Leaf("type is not supported", ECInvType)
    ELSE IF IsNil(v)[1] THEN NoErr
    ELSE IF IsEmpty(v) THEN NoErr
    ELSE LET c == CallCompare(r.with, r.threshold, v)
         IN IF c.err # NoErr THEN c.err
            ELSE IF ~thresholdOutcome(r.operator, c.res)
            THEN IF r.err # NoErr THEN r.err
                 ELSE thresholdError(r.threshold, r.errTpl, r.code)
            ELSE NoErr

ByRuleValidate(r, v) ==
    IF ~r.condition THEN NoErr
    ELSE LET err == CallRuleFunc(r.fn, v)
         IN IF err = Panic THEN Panic
            ELSE IF err # NoErr
            THEN setCode(IF r.err # NoErr THEN r.err ELSE err, r.code)
            ELSE NoErr

DynamicRuleValidate(r, v) ==
    IF ~r.condition THEN NoErr
    ELSE IF r.by = "nil" THEN ErrInvSetup
    ELSE LET err == CallRuleFunc(r.by, v)
         IN IF err # NoErr
            THEN setCode(IF r.err # NoErr THEN r.err ELSE err, r.code)
            ELSE NoErr

ErrorRuleValidate(r, v) == IF ~r.condition THEN NoErr ELSE r.err

RECURSIVE Validate(_, _)

\* A When rule that evaluates both branches before it picks one.
WhenRuleValidateBoth(r, v) ==
    LET thenErr == Validate(v, r.rules)
        elseErr == Validate(v, r.elseRules)
        err == IF thenErr = Panic \/ elseErr = Panic THEN Panic
               ELSE IF r.condition THEN thenErr ELSE elseErr
    IN IF err = Panic THEN Panic
       ELSE IF err # NoErr
       THEN IF r.err # NoErr THEN setCode(r.err, r.code) ELSE setCode(err, r.code)
       ELSE NoErr

\* A When rule that runs its rules and nothing else.
WhenRuleValidateRulesOnly(r, v) ==
    LET branch == IF r.condition THEN r.rules ELSE r.elseRules
        err == IF branch = <<>> THEN NoErr ELSE Validate(v, branch)
    IN IF err = Panic THEN Panic
       ELSE IF err # NoErr
       THEN IF r.err # NoErr THEN setCode(r.err, r.code) ELSE setCode(err, r.code)
       ELSE NoErr

\* WhenRule.Validate
WhenRuleValidate(r, v) ==
    LET err == IF r.condition THEN Validate(v, r.rules) ELSE Validate(v, r.elseRules)
    IN IF err = Panic THEN Panic
       ELSE IF err # NoErr
       THEN IF r.err # NoErr THEN setCode(r.err, r.code) ELSE setCode(err, r.code)
       ELSE NoErr

\* A Set that leaves its rules out.
SetValidateNoRules(rg, v) == Validate(v, <<>>)

\* Set.Validate
SetValidate(rg, v) == Validate(v, rg.rules)

\* reflect.Value.String() of a value that is no string: "<T Value>".
IntValueString == <<"<", "i", "n", "t", " ", "V", "a", "l", "u", "e", ">">>

\* mapErrKey of the key at position i: the digits of an int key, the text
\* of a string key; of a key held in an interface, what its String() says.
mapErrKey(v, i) ==
    IF v.typ[2] = "any"
    THEN IF v.keys[i].kind = "string" THEN v.keys[i].s ELSE IntValueString
    ELSE IF v.keys[i].kind = "int" THEN Itoa(v.keys[i].n)
    ELSE v.keys[i].s

\* The key an element's error is stored under by EachRule.Validate.
eachKey(v, i) == IF v.kind = "map" THEN mapErrKey(v, i) ELSE Itoa(i - 1)

\* A loop that returns at the first failing element.
eachElemsStopAtFirst(r, v, i, ers) ==
    LET failing == {k \in i..Len(v.elems) :
                       Validate(getInterface(v.elems[k], "ElemInterface" \in v.caps),
                                r.rules) # NoErr}
        first == CHOOSE k \in failing : \A j \in failing : k <= j
    IN IF failing = {} THEN ErsResult(ers)
       ELSE ErsResult(Put(ers, eachKey(v, first),
                Validate(getInterface(v.elems[first], "ElemInterface" \in v.caps),
                         r.rules)))

RECURSIVE eachElems(_, _, _, _)
\* The loops of EachRule.Validate from position i on.
eachElems(r, v, i, ers) ==
    IF i > Len(v.elems) THEN ErsResult(ers)
    ELSE LET val == getInterface(v.elems[i], "ElemInterface" \in v.caps)
             err == Validate(val, r.rules)
         IN IF err = Panic THEN Panic
            ELSE IF err # NoErr
            THEN eachElems(r, v, i + 1, Put(ers, eachKey(v, i), err))
            ELSE eachElems(r, v, i + 1, ers)

EachRuleValidate(r, v) ==
    IF v.kind \in {"map", "slice", "array"} THEN eachElems(r, v, 1, NoFields)
    ELSE ErrNotIterable

\* getErrorKeyName
getErrorKeyName(key) == SprintfV(key)

\* kt.AssignableTo(kv.Type()): the map's key type against the type of the
\* binding's key; an interface type is assignable to no concrete type.
KeyAssignable(val, key) == val.typ[2] = key.kind

\* The position of the key in the map, 0 when the map does not hold it.
MapIndex(val, key) ==
    IF \E i \in 1..Len(val.keys) : val.keys[i] = key
    THEN CHOOSE i \in 1..Len(val.keys) : val.keys[i] = key
    ELSE 0

\* A loop body for which every binding is required.
keyErrAllRequired(val, kr) ==
    IF ~KeyAssignable(val, kr.key) THEN ErrInvKeyType
    ELSE IF MapIndex(val, kr.key) = 0 THEN ErrKeyMissing
    ELSE Validate(val.elems[MapIndex(val, kr.key)], kr.rules)

\* The error of one binding in the loop of MapRule.Validate.
keyErr(val, kr) ==
    IF ~KeyAssignable(val, kr.key) THEN ErrInvKeyType
    ELSE IF MapIndex(val, kr.key) = 0
    THEN IF ~kr.optional THEN ErrKeyMissing ELSE NoErr
    ELSE Validate(val.elems[MapIndex(val, kr.key)], kr.rules)

RECURSIVE mapKeys(_, _, _, _)
\* The loop over r.keys from binding i on, and what follows it.
mapKeys(r, val, i, ers) ==
    IF i > Len(r.keys)
    THEN IF r.allowUnknown THEN ErsResult(ers)
         ELSE LET extraKeys ==
                      {k \in 1..Len(val.keys) :
                          \A j \in 1..Len(r.keys) : r.keys[j].key # val.keys[k]}
              IN ErsResult(
                     [n \in DOMAIN ers \cup {getErrorKeyName(val.keys[k]) : k \in extraKeys}
                        |-> IF \E k \in extraKeys : getErrorKeyName(val.keys[k]) = n
                            THEN ErrKeyUnexpected ELSE ers[n]])
    ELSE LET err == keyErr(val, r.keys[i])
         IN IF err = Panic THEN Panic
            ELSE IF err # NoErr /\ GetCode(err) = ECInternal
            THEN Prefixed(getErrorKeyName(r.keys[i].key), err, ECInternal)
            ELSE IF err # NoErr
            THEN mapKeys(r, val, i + 1, Put(ers, getErrorKeyName(r.keys[i].key), err))
            ELSE mapKeys(r, val, i + 1, ers)

MapRuleValidate(r, v) ==
    LET val == IF v.kind = "ptr"
               THEN IF v.isnil THEN NilV ELSE v.elems[1]
               ELSE v
    IN IF val.kind # "map" THEN ErrNotMapPtr
       ELSE IF val.isnil THEN NoErr
       ELSE mapKeys(r, val, 1, NoFields)

\* rule.Validate(v): the Validate method of the rule's dynamic type; calling
\* it on a nil Rule panics.
RuleValidate(r, v) ==
    CASE r.kind = "skip" -> skipRuleValidate(r, v)
      [] r.kind = "required" -> requiredRuleValidate(r, v)
      [] r.kind = "absent" -> absentRuleValidate(r, v)
      [] r.kind = "notNil" -> notNilRuleValidate(r, v)
      [] r.kind = "equal" -> EqualRuleValidate(r, v)
      [] r.kind = "in" -> InRuleValidate(r, v)
      [] r.kind = "length" -> LengthRuleValidate(r, v)
      [] r.kind = "match" -> MatchRuleValidate(r, v)
      [] r.kind = "string" -> StringRuleValidate(r, v)
      [] r.kind = "type" -> TypeRuleValidate(r, v)
      [] r.kind = "threshold" -> ThresholdRuleValidate(r, v)
      [] r.kind = "by" -> ByRuleValidate(r, v)
      [] r.kind = "dynamic" -> DynamicRuleValidate(r, v)
      [] r.kind = "error" -> ErrorRuleValidate(r, v)
      [] r.kind = "when" -> WhenRuleValidate(r, v)
      [] r.kind = "set" -> SetValidate(r, v)
      [] r.kind = "each" -> EachRuleValidate(r, v)
      [] r.kind = "map" -> MapRuleValidate(r, v)
      [] r.kind = "nil" -> Panic

(***************************************************************************)
(* The customization methods: each works on a copy of its receiver.        *)
(***************************************************************************)
\* The rules that have a When, a Code and an Error method.
HasWhen(r) == r.kind \notin {"when", "set", "each", "map"}
HasCode(r) == r.kind \notin {"skip", "set", "each", "map"}
HasError(r) == r.kind \notin {"skip", "error", "set", "each", "map"}

\* The When method of every rule; skipRule.When returns skipRule(condition).
RuleWhen(r, condition) == [r EXCEPT !.condition = condition]

\* The Code method of every rule.
RuleCode(r, code) ==
    IF r.kind \in {"by", "dynamic", "when"} THEN [r EXCEPT !.code = code]
    ELSE IF r.kind = "threshold"
    THEN [r EXCEPT !.code = code, !.err = setCode(r.err, code)]
    ELSE [r EXCEPT !.err = setCode(r.err, code)]

\* The Error method of every rule.
RuleError(r, err) == [r EXCEPT !.err = err]

\* ThresholdRule.Exclusive
Exclusive(r) ==
    IF r.operator = greaterEqualThan
    THEN [r EXCEPT !.operator = greaterThan, !.errTpl = "must be greater than"]
    ELSE IF r.operator = lessEqualThan
    THEN [r EXCEPT !.operator = lessThan, !.errTpl = "must be less than"]
    ELSE r

\* ThresholdRule.With
With(r, cmp) == [r EXCEPT !.with = cmp]

\* DynamicRule.RuleFunc
RuleFunc(r, fn) == [r EXCEPT !.by = fn]

(***************************************************************************)
(* Building a rule by customization calls and validating one value with    *)
(* it: r := Base; r = r.When(..); r = r.Code(..); ...; r.Validate(v).      *)
(* rhist records each call: the method, its code or error argument and the *)
(* rule it was called on.                                                  *)
(***************************************************************************)
Int0 == IntV(0)
Int5 == IntV(5)
Int9 == IntV(9)

\* The rules a caller starts from, the misconfigured ones included:
\* Match(nil), String(nil), By(nil), EqualBy(v, nil), Min("abc").
BaseRules ==
    {Required, NotEmpty, Nil, Empty, NotNil,
     Equal(StrAbc), NotEqual(StrAbc), EqualBy(StrAbc, "nil"),
     In(<<StrAbc, Int5>>), NotIn(<<StrXyz>>),
     Length(4, 7), RuneLength(0, 2),
     Match("^abc$"), Match("nil"),
     String("checkAbc"), String("nil"),
     TypeOf(Int5),
     Min(Int5), Max(Int5), Min(StrAbc),
     By("StrAbc"), By("nil"), Noop,
     Dynamic,
     Error(ErrCustom),
     When(TRUE, <<Required>>), When(TRUE, <<By("StrAbc")>>),
     When(FALSE, <<By("nil")>>), When(FALSE, <<Required>>)}

RuleValues == {NilV, Int0, Int9, StrEmpty, StrXyz, PtrTo(StrXyz), NilPtr(<<"string">>)}
RuleCodes == {"", "ECMy"}
RuleErrors == {ErrTst}
CompareFuncs == {"nil", "cmpReject"}
RuleFuncs == {"nil", "ErrRule"}
ElseRules == {<<Required>>, <<By("nil")>>}

\* Sequences over S of length at most n.
SeqsUpTo(S, n) == UNION {[1..k -> S] : k \in 0..n}

RECURSIVE Reverse(_)
Reverse(q) == IF q = <<>> THEN <<>> ELSE Append(Reverse(Tail(q)), Head(q))

\* The same map, its keys met in the opposite order.
MapRev(v) == [v EXCEPT !.keys = Reverse(v.keys), !.elems = Reverse(v.elems)]

\* map[string]string{"a": "abc", "b": ""} and map[int]string{0: "", 14: "xyz"}
MapStrBlank ==
    MapOf(<<"string", "string">>, {}, <<StrKey(<<"a">>), StrKey(<<"b">>)>>,
          <<StrAbc, StrEmpty>>)
MapIntStr ==
    MapOf(<<"int", "string">>, {}, <<IntKey(0), IntKey(14)>>, <<StrEmpty, StrXyz>>)
\* map[string]string(nil)
NilMapStr == [MapOf(<<"string", "string">>, {}, <<>>, <<>>) EXCEPT !.isnil = TRUE]

\* []*string{nil, &"abc"}
SlicePtrStr ==
    SliceOf(<<"*", "string">>, {}, <<NilPtr(<<"string">>), PtrTo(StrAbc)>>)

\* The bindings handed to Map: present, failing, missing, optional and
\* wrongly typed keys, and a rule reporting library misuse.
MapBindings ==
    {Key(StrKey(<<"a">>), <<Required>>),
     Key(StrKey(<<"b">>), <<Required>>),
     Key(StrKey(<<"c">>), <<Required>>),
     Optional(Key(StrKey(<<"c">>), <<Required>>)),
     RequiredWhen(Key(StrKey(<<"b">>), <<>>), FALSE),
     Key(IntKey(0), <<Required>>),
     Key(StrKey(<<"a">>), <<By("Internal")>>)}

\* Each, Map and Set rules, validated against containers.
ContainerRules ==
    {Each(<<>>), Each(<<Required>>), Each(<<By("StrAbc"), Required>>),
     Each(<<By("Internal")>>), Each(<<By("PtrOnly")>>), Set(<<>>),
     When(TRUE, <<>>), When(FALSE, <<Required>>)}
    \cup {Map(ks) : ks \in SeqsUpTo(MapBindings, MaxKeys)}

ContainerValues ==
    {NilV, StrAbc, PtrTo(SliceStr), NilPtr(<<"map", "string", "string">>),
     SliceStr, SliceNone, SliceBadOkBad, SliceInternal, SliceAny, ArrayVal,
     MapStrBlank, MapRev(MapStrBlank), PtrTo(MapStrBlank),
     MapIntStr, MapRev(MapIntStr), MapStrMixed, MapAnyAlike, MapRev(MapAnyAlike),
     NilMapStr, PtrTo(NilMapStr), SlicePtrStr, ModelPtrOk, ModelPtrBad}

Call(m, code, err, before) == [m |-> m, code |-> code, err |-> err, before |-> before]

InitRule ==
    /\ \/ rrule \in BaseRules /\ rval \in RuleValues
       \/ rrule \in ContainerRules /\ rval \in ContainerValues
    /\ rwhen = "unset"
    /\ rres = NoErr
    /\ rsteps = 0
    /\ rpc = "build"
    /\ rhist = <<>>

CustomizeWhen ==
    /\ op = "rule" /\ rpc = "build" /\ rsteps < MaxSteps
    /\ HasWhen(rrule)
    /\ \E b \in BOOLEAN :
        /\ rrule' = RuleWhen(rrule, b)
        /\ rwhen' = IF b THEN "true" ELSE "false"
    /\ rsteps' = rsteps + 1
    /\ rhist' = Append(rhist, Call("When", "", NoErr, rrule))
    /\ UNCHANGED <<op, rval, rres, rpc, dvars, svars, nvars, hvars, cvars>>

CustomizeCode ==
    /\ op = "rule" /\ rpc = "build" /\ rsteps < MaxSteps
    /\ HasCode(rrule)
    /\ \E c \in RuleCodes :
        /\ rrule' = RuleCode(rrule, c)
        /\ rhist' = Append(rhist, Call("Code", c, NoErr, rrule))
    /\ rsteps' = rsteps + 1
    /\ UNCHANGED <<op, rwhen, rval, rres, rpc, dvars, svars, nvars, hvars, cvars>>

CustomizeError ==
    /\ op = "rule" /\ rpc = "build" /\ rsteps < MaxSteps
    /\ HasError(rrule)
    /\ \E e \in RuleErrors :
        /\ rrule' = RuleError(rrule, e)
        /\ rhist' = Append(rhist, Call("Error", "", e, rrule))
    /\ rsteps' = rsteps + 1
    /\ UNCHANGED <<op, rwhen, rval, rres, rpc, dvars, svars, nvars, hvars, cvars>>

CustomizeExclusive ==
    /\ op = "rule" /\ rpc = "build" /\ rsteps < MaxSteps
    /\ rrule.kind = "threshold"
    /\ rrule' = Exclusive(rrule)
    /\ rsteps' = rsteps + 1
    /\ rhist' = Append(rhist, Call("Exclusive", "", NoErr, rrule))
    /\ UNCHANGED <<op, rwhen, rval, rres, rpc, dvars, svars, nvars, hvars, cvars>>

CustomizeWith ==
    /\ op = "rule" /\ rpc = "build" /\ rsteps < MaxSteps
    /\ rrule.kind = "threshold"
    /\ \E f \in CompareFuncs : rrule' = With(rrule, f)
    /\ rsteps' = rsteps + 1
    /\ rhist' = Append(rhist, Call("With", "", NoErr, rrule))
    /\ UNCHANGED <<op, rwhen, rval, rres, rpc, dvars, svars, nvars, hvars, cvars>>

CustomizeRuleFunc ==
    /\ op = "rule" /\ rpc = "build" /\ rsteps < MaxSteps
    /\ rrule.kind = "dynamic"
    /\ \E f \in RuleFuncs : rrule' = RuleFunc(rrule, f)
    /\ rsteps' = rsteps + 1
    /\ rhist' = Append(rhist, Call("RuleFunc", "", NoErr, rrule))
    /\ UNCHANGED <<op, rwhen, rval, rres, rpc, dvars, svars, nvars, hvars, cvars>>

\* r = r.Else(rules...)
CustomizeElse ==
    /\ op = "rule" /\ rpc = "build" /\ rsteps < MaxSteps
    /\ rrule.kind = "when"
    /\ \E rules \in ElseRules : rrule' = Else(rrule, rules)
    /\ rsteps' = rsteps + 1
    /\ rhist' = Append(rhist, Call("Else", "", NoErr, rrule))
    /\ UNCHANGED <<op, rwhen, rval, rres, rpc, dvars, svars, nvars, hvars, cvars>>

\* r = r.AllowUnknown()
CustomizeAllowUnknown ==
    /\ op = "rule" /\ rpc = "build" /\ rsteps < MaxSteps
    /\ rrule.kind = "map"
    /\ rrule' = AllowUnknown(rrule)
    /\ rsteps' = rsteps + 1
    /\ rhist' = Append(rhist, Call("AllowUnknown", "", NoErr, rrule))
    /\ UNCHANGED <<op, rwhen, rval, rres, rpc, dvars, svars, nvars, hvars, cvars>>

\* err := r.Validate(v)
CallRuleValidate ==
    /\ op = "rule" /\ rpc = "build"
    /\ rres' = RuleValidate(rrule, rval)
    /\ rpc' = "done"
    /\ UNCHANGED <<op, rrule, rwhen, rval, rsteps, rhist, dvars, svars, nvars, hvars, cvars>>

(***************************************************************************)
(* The dispatcher: Validate(v, rules...).                                  *)
(*                                                                         *)
(* reflect's MapKeys returns the keys of a map in no specified order: the  *)
(* order of a map value's keys sequence is the order of the run, and the   *)
(* inputs hold the same map in both orders.                                *)
(***************************************************************************)
\* A dispatcher that stops at every Skip marker, whatever its condition.
IsAnySkip(rule) == rule.kind = "skip"

\* rule.(skipRule) with a true condition
IsActiveSkip(rule) == rule.kind = "skip" /\ rule.condition

\* ModelVW.ValidateWith of the tests: the rule sees m.value, unless the
\* value is "too_long".
ValidateWith(v, rule) ==
    LET value == v.elems[1].elems[1]
    IN IF value.s = "too_long" THEN ErrTst ELSE RuleValidate(rule, value)

\* The body of the loop of Validate for one rule that is no active Skip.
ApplyRule(v, rule) ==
    IF "WithValidator" \in v.caps THEN ValidateWith(v, rule)
    ELSE RuleValidate(rule, v)

\* A dispatcher without the nil-pointer test.
NeverNilPtr(v) == FALSE

\* (rv.Kind() == reflect.Ptr || rv.Kind() == reflect.Interface) && rv.IsNil()
IsNilPtr(v) == v.kind = "ptr" /\ v.isnil

\* v.(Validator)
IsValidator(v) == "Validator" \in v.caps

\* rv.Type().Elem().Implements(validatableType)
ElemImplements(v) == "ElemValidator" \in v.caps

\* The key of the element at position i (from 1): fmt.Sprintf("%v", key) in
\* validateMap, strconv.Itoa(i) in validateSlice.
ElemKey(v, i) == IF v.kind = "map" THEN SprintfV(v.keys[i]) ELSE Itoa(i - 1)

RECURSIVE validateElems(_, _, _)
\* The loops of validateMap and validateSlice from position i on.
validateElems(v, i, ers) ==
    IF i > Len(v.elems) THEN ErsResult(ers)
    ELSE IF v.elems[i] = NilV THEN validateElems(v, i + 1, ers)
    ELSE IF v.elems[i].self = Panic THEN Panic
    ELSE IF v.elems[i].self # NoErr
    THEN validateElems(v, i + 1, Put(ers, ElemKey(v, i), v.elems[i].self))
    ELSE validateElems(v, i + 1, ers)

validateMap(v) == validateElems(v, 1, NoFields)
validateSlice(v) == validateElems(v, 1, NoFields)

RECURSIVE ValidateFrom(_, _, _)
\* Validate from rule i on; past the last rule, the rest of the function.
ValidateFrom(v, rules, i) ==
    IF i <= Len(rules)
    THEN IF IsActiveSkip(rules[i]) THEN NoErr
         ELSE IF ApplyRule(v, rules[i]) # NoErr THEN ApplyRule(v, rules[i])
         ELSE ValidateFrom(v, rules, i + 1)
    ELSE IF IsNilPtr(v) THEN NoErr
    ELSE IF IsValidator(v) THEN v.self
    ELSE IF v.kind = "map" /\ ElemImplements(v) THEN validateMap(v)
    ELSE IF v.kind \in {"slice", "array"} /\ ElemImplements(v) THEN validateSlice(v)
    ELSE IF v.kind = "ptr"
    THEN IF v.elems = <<>> THEN Panic ELSE ValidateFrom(v.elems[1], <<>>, 1)
    ELSE NoErr

Validate(v, rules) == ValidateFrom(v, rules, 1)

(***************************************************************************)
(* Validate(v, rules...) step by step.  dlog records every call the        *)
(* function makes: a rule's Validate ("rule", i), v.ValidateWith ("with",  *)
(* i), v's own Validate() ("self") and an element's Validate() ("elem",    *)
(* position).                                                              *)
(***************************************************************************)
Ev(ev, i) == [ev |-> ev, i |-> i]

InLoop == op = "validate" /\ dpc = "loop" /\ di <= Len(drules)
PastLoop == op = "validate" /\ dpc = "loop" /\ di > Len(drules)

\* if s, ok := rule.(skipRule); ok && bool(s) { return nil }
VSkip ==
    /\ InLoop
    /\ IsActiveSkip(drules[di])
    /\ dres' = NoErr
    /\ dpc' = "done"
    /\ UNCHANGED <<op, dv0, drules0, dv, drules, di, dk, ders, dlog, rvars, svars, nvars, hvars, cvars>>

\* if red, ok := v.(WithValidator); ok { err := red.ValidateWith(rule) ... }
VValidateWith ==
    /\ InLoop
    /\ ~IsActiveSkip(drules[di])
    /\ "WithValidator" \in dv.caps
    /\ dlog' = Append(dlog, Ev("with", di))
    /\ IF ValidateWith(dv, drules[di]) # NoErr
       THEN /\ dres' = ValidateWith(dv, drules[di])
            /\ dpc' = "done"
            /\ di' = di
       ELSE /\ di' = di + 1
            /\ UNCHANGED <<dres, dpc>>
    /\ UNCHANGED <<op, dv0, drules0, dv, drules, dk, ders, rvars, svars, nvars, hvars, cvars>>

\* A loop that notes a rule's error and goes on to the next rule.
VRuleKeepGoing ==
    /\ op = "validate" /\ dpc = "loop" /\ di <= Len(drules)
    /\ ~(drules[di].kind = "skip" /\ drules[di].condition)
    /\ "WithValidator" \notin dv.caps
    /\ dlog' = Append(dlog, [ev |-> "rule", i |-> di])
    /\ dres' = IF RuleValidate(drules[di], dv) # NoErr
               THEN RuleValidate(drules[di], dv) ELSE dres
    /\ di' = di + 1
    /\ dpc' = IF di = Len(drules) /\ dres' # NoErr THEN "done" ELSE dpc
    /\ UNCHANGED <<op, dv0, drules0, dv, drules, dk, ders, rvars, svars, nvars, hvars, cvars>>

\* if err := rule.Validate(v); err != nil { return err }
VRule ==
    /\ InLoop
    /\ ~IsActiveSkip(drules[di])
    /\ "WithValidator" \notin dv.caps
    /\ dlog' = Append(dlog, Ev("rule", di))
    /\ IF RuleValidate(drules[di], dv) # NoErr
       THEN /\ dres' = RuleValidate(drules[di], dv)
            /\ dpc' = "done"
            /\ di' = di
       ELSE /\ di' = di + 1
            /\ UNCHANGED <<dres, dpc>>
    /\ UNCHANGED <<op, dv0, drules0, dv, drules, dk, ders, rvars, svars, nvars, hvars, cvars>>

\* A nil pointer: return nil.
VNilPtr ==
    /\ PastLoop
    /\ IsNilPtr(dv)
    /\ dres' = NoErr
    /\ dpc' = "done"
    /\ UNCHANGED <<op, dv0, drules0, dv, drules, di, dk, ders, dlog, rvars, svars, nvars, hvars, cvars>>

\* if vi, ok := v.(Validator); ok { return vi.Validate() }
VSelf ==
    /\ PastLoop
    /\ ~IsNilPtr(dv)
    /\ IsValidator(dv)
    /\ dlog' = Append(dlog, Ev("self", 0))
    /\ dres' = dv.self
    /\ dpc' = "done"
    /\ UNCHANGED <<op, dv0, drules0, dv, drules, di, dk, ders, rvars, svars, nvars, hvars, cvars>>

\* case reflect.Map: return validateMap(rv)
VCallValidateMap ==
    /\ PastLoop
    /\ ~IsNilPtr(dv) /\ ~IsValidator(dv)
    /\ dv.kind = "map" /\ ElemImplements(dv)
    /\ dpc' = "map"
    /\ dk' = 1
    /\ ders' = NoFields
    /\ UNCHANGED <<op, dv0, drules0, dv, drules, di, dres, dlog, rvars, svars, nvars, hvars, cvars>>

\* case reflect.Slice, reflect.Array: return validateSlice(rv)
VCallValidateSlice ==
    /\ PastLoop
    /\ ~IsNilPtr(dv) /\ ~IsValidator(dv)
    /\ dv.kind \in {"slice", "array"} /\ ElemImplements(dv)
    /\ dpc' = "slice"
    /\ dk' = 1
    /\ ders' = NoFields
    /\ UNCHANGED <<op, dv0, drules0, dv, drules, di, dres, dlog, rvars, svars, nvars, hvars, cvars>>

\* A dispatcher that returns nil for a pointer without looking behind it.
VDerefReturnsNil ==
    /\ PastLoop
    /\ ~IsNilPtr(dv) /\ ~IsValidator(dv)
    /\ dv.kind = "ptr"
    /\ dres' = NoErr
    /\ dpc' = "done"
    /\ UNCHANGED <<op, dv0, drules0, dv, drules, di, dk, ders, dlog, rvars, svars, nvars, hvars, cvars>>

\* case reflect.Ptr, reflect.Interface: return Validate(rv.Elem().Interface())
VDeref ==
    /\ PastLoop
    /\ ~IsNilPtr(dv) /\ ~IsValidator(dv)
    /\ dv.kind = "ptr"
    /\ dv' = dv.elems[1]
    /\ drules' = <<>>
    /\ di' = 1
    /\ UNCHANGED <<op, dv0, drules0, dpc, dk, ders, dres, dlog, rvars, svars, nvars, hvars, cvars>>

\* return nil: nothing more to validate.
VValid ==
    /\ PastLoop
    /\ ~IsNilPtr(dv) /\ ~IsValidator(dv)
    /\ ~(dv.kind \in {"map", "slice", "array"} /\ ElemImplements(dv))
    /\ dv.kind # "ptr"
    /\ dres' = NoErr
    /\ dpc' = "done"
    /\ UNCHANGED <<op, dv0, drules0, dv, drules, di, dk, ders, dlog, rvars, svars, nvars, hvars, cvars>>

\* An element loop that returns at the first failing element.
ElemPassStopAtFirst(pos) ==
    /\ op = "validate" /\ dpc = pos /\ dk <= Len(dv.elems)
    /\ dlog' = Append(dlog, [ev |-> "elem", i |-> dk])
    /\ IF dv.elems[dk] # NilV /\ dv.elems[dk].self # NoErr
       THEN /\ dres' = Fields((ElemKey(dv, dk) :> dv.elems[dk].self))
            /\ dpc' = "done"
            /\ UNCHANGED <<dk, ders>>
       ELSE /\ dk' = dk + 1
            /\ UNCHANGED <<ders, dres, dpc>>
    /\ UNCHANGED <<op, dv0, drules0, dv, drules, di, rvars, svars, nvars, hvars, cvars>>

\* One pass of the loop of validateMap (pos "map") or validateSlice ("slice").
ElemPass(pos) ==
    /\ op = "validate" /\ dpc = pos /\ dk <= Len(dv.elems)
    /\ IF dv.elems[dk] = NilV
       THEN /\ dk' = dk + 1
            /\ UNCHANGED <<ders, dres, dpc, dlog>>
       ELSE /\ dlog' = Append(dlog, Ev("elem", dk))
            /\ IF dv.elems[dk].self = Panic
               THEN /\ dres' = Panic
                    /\ dpc' = "done"
                    /\ UNCHANGED <<dk, ders>>
               ELSE /\ dk' = dk + 1
                    /\ ders' = IF dv.elems[dk].self # NoErr
                               THEN Put(ders, ElemKey(dv, dk), dv.elems[dk].self)
                               ELSE ders
                    /\ UNCHANGED <<dres, dpc>>
    /\ UNCHANGED <<op, dv0, drules0, dv, drules, di, rvars, svars, nvars, hvars, cvars>>

\* The end of validateMap and of validateSlice.
ElemReturn(pos) ==
    /\ op = "validate" /\ dpc = pos /\ dk > Len(dv.elems)
    /\ dres' = ErsResult(ders)
    /\ dpc' = "done"
    /\ UNCHANGED <<op, dv0, drules0, dv, drules, di, dk, ders, dlog, rvars, svars, nvars, hvars, cvars>>

VMapElem == ElemPass("map")
VMapReturn == ElemReturn("map")
VSliceElem == ElemPass("slice")
VSliceReturn == ElemReturn("slice")

(***************************************************************************)
(* Inputs and specifications.                                              *)
(***************************************************************************)
SkipOff == RuleWhen(Skip, FALSE)

DRules == {Skip, SkipOff, Required, NotNil, Error(ErrCustom), By("StrAbc")}

\* The same rule lists grouped: Set{rules...}
DSets == {Set(rules) : rules \in SeqsUpTo(DRules, MaxRules)}

DValues ==
    {NilV, StrAbc, StrEmpty, NilPtr(<<"string">>), PtrTo(StrAbc),
     ModelPtrOk, ModelPtrBad, ModelPtrNil, ModelValBad, ModelValOk,
     ModelVWAbc, ModelVWEmpty, ModelVWTooLong,
     TwoStr, PtrTo(TwoStr), PtrTo(ModelPtrBad), PtrTo(SliceBadOkBad),
     SliceBadOkBad, SliceAllOk, SliceNone, SliceNilPtr, SliceIface,
     SliceInternal, SliceStr, SliceAny, ArrayVal,
     MapIntBad, MapRev(MapIntBad), MapIntOk, MapStrMixed,
     MapAnyAlike, MapRev(MapAnyAlike), MapStrStr,
     ModelsSelf, NilMapSelf}

IdleValidate ==
    /\ dv0 = NilV /\ drules0 = <<>> /\ dv = NilV /\ drules = <<>> /\ dpc = "idle" /\ di = 0
    /\ dk = 0 /\ ders = NoFields /\ dres = NoErr /\ dlog = <<>>

IdleRule ==
    /\ rrule = Noop /\ rwhen = "unset" /\ rval = NilV /\ rres = NoErr
    /\ rsteps = 0 /\ rpc = "idle" /\ rhist = <<>>

IdleShare == heap = <<>> /\ hmap = <<>> /\ hcall = [m |-> ""]

IdleClassify == cv = NilV /\ cfn = "" /\ cout = <<>>

IdleNamed ==
    /\ nreg = [n \in {} |-> Noop] /\ nhist = <<>> /\ nmode = "" /\ nname = ""
    /\ nres = Noop

IdleStruct ==
    /\ sin = NilV /\ sfields = <<>> /\ spc = "idle" /\ si = 0
    /\ sers = NoFields /\ sres = NoErr /\ slog = <<>> /\ ErrorTag = "json"

InitValidate ==
    /\ op = "validate"
    /\ dv0 \in DValues
    /\ dv = dv0
    /\ drules0 \in SeqsUpTo(DRules, MaxRules) \cup {<<rg>> : rg \in DSets}
    /\ drules = drules0
    /\ dpc = "loop"
    /\ di = 1
    /\ dk = 0
    /\ ders = NoFields
    /\ dres = NoErr
    /\ dlog = <<>>
    /\ IdleRule /\ IdleStruct /\ IdleNamed /\ IdleShare /\ IdleClassify

NextValidate ==
    \/ VSkip \/ VValidateWith \/ VRule
    \/ VNilPtr \/ VSelf \/ VCallValidateMap \/ VCallValidateSlice
    \/ VDeref \/ VValid
    \/ VMapElem \/ VMapReturn \/ VSliceElem \/ VSliceReturn

SpecValidate == InitValidate /\ [][NextValidate]_vars

InitRuleSpec ==
    /\ op = "rule" /\ InitRule
    /\ IdleValidate /\ IdleStruct /\ IdleNamed /\ IdleShare /\ IdleClassify

NextRule ==
    \/ CustomizeWhen \/ CustomizeCode \/ CustomizeError
    \/ CustomizeExclusive \/ CustomizeWith \/ CustomizeRuleFunc
    \/ CustomizeElse \/ CustomizeAllowUnknown
    \/ CallRuleValidate

SpecRule == InitRuleSpec /\ [][NextRule]_vars

(***************************************************************************)
(* Properties of the rule loop of Validate.                                *)
(***************************************************************************)
Done == op = "validate" /\ dpc = "done"

ActiveSkipAt(i) == drules0[i].kind = "skip" /\ drules0[i].condition
InactiveSkipAt(i) == drules0[i].kind = "skip" /\ ~drules0[i].condition

\* What applying rule i to the caller's value yields: the rule's own
\* verdict, or the verdict of v.ValidateWith(rule).
OutcomeAt(i) ==
    IF "WithValidator" \in dv0.caps
    THEN ValidateWith(dv0, drules0[i])
    ELSE RuleValidate(drules0[i], dv0)
FailsAt(i) == ~ActiveSkipAt(i) /\ OutcomeAt(i) # NoErr

\* No rule before i failed and no active Skip stands before i.
ReachedAt(i) ==
    /\ i \in 1..Len(drules0)
    /\ \A j \in 1..(i - 1) : ~ActiveSkipAt(j) /\ ~FailsAt(j)
AllPass == \A j \in 1..Len(drules0) : ~ActiveSkipAt(j) /\ ~FailsAt(j)

\* Rule i was applied (directly or through ValidateWith).
Evaluated(i) ==
    \E k \in 1..Len(dlog) : dlog[k].ev \in {"rule", "with"} /\ dlog[k].i = i
Calls(ev) == {k \in 1..Len(dlog) : dlog[k].ev = ev}

\* C1: the rules are applied strictly left to right, through v.ValidateWith
\* exactly when v has that capability; once a rule fails no later rule is
\* evaluated and the call returns that rule's error, an active Skip after
\* the failing rule notwithstanding.
C1_FirstFailure ==
    /\ \A k \in 1..Len(dlog) :
          dlog[k].ev \in {"rule", "with"} =>
             /\ dlog[k].i = k
             /\ (dlog[k].ev = "with") <=> ("WithValidator" \in dv0.caps)
    /\ \A f \in 1..Len(drules0) :
          (ReachedAt(f) /\ FailsAt(f)) =>
             /\ \A i \in (f + 1)..Len(drules0) : ~Evaluated(i)
             /\ Done => (Evaluated(f) /\ dres = OutcomeAt(f))

\* The first rule fails and an active Skip follows it: the error stands.
C1_Witness ==
    /\ Done /\ Len(drules0) = 2
    /\ FailsAt(1) /\ ActiveSkipAt(2)
    /\ dres = OutcomeAt(1) /\ dres # NoErr
    /\ dlog = <<Ev("rule", 1)>>

RECURSIVE WithoutInactiveSkips(_)
WithoutInactiveSkips(rules) ==
    IF rules = <<>> THEN <<>>
    ELSE IF Head(rules).kind = "skip" /\ ~Head(rules).condition
    THEN WithoutInactiveSkips(Tail(rules))
    ELSE <<Head(rules)>> \o WithoutInactiveSkips(Tail(rules))

\* An active Skip reached with no earlier failure ends the call with nil:
\* nothing from the marker on is evaluated, v's Validate() is not called
\* and nothing is recursed into.
ActiveSkipStops ==
    \A s \in 1..Len(drules0) :
       (ReachedAt(s) /\ ActiveSkipAt(s)) =>
          /\ \A i \in s..Len(drules0) : ~Evaluated(i)
          /\ Calls("self") = {} /\ Calls("elem") = {}
          /\ dv = dv0
          /\ Done => dres = NoErr

\* C2 (as stated): an active Skip stops the evaluation; Skip.When(false)
\* has no effect: the rule after it is evaluated and the call returns what
\* it returns without the marker.
C2_InactiveSkipNoEffect ==
    /\ ActiveSkipStops
    /\ \A s \in 1..Len(drules0) :
          (Done /\ ReachedAt(s) /\ InactiveSkipAt(s)) =>
             /\ (s < Len(drules0) /\ ~ActiveSkipAt(s + 1)) => Evaluated(s + 1)
             /\ dres = Validate(dv0, WithoutInactiveSkips(drules0))

\* C2 (amended): an active Skip stops the evaluation; Skip.When(false) does
\* not stop it but is applied like any other rule.  Applied directly it
\* returns nil, so for a value without ValidateWith the rule after it is
\* evaluated and the result is that of the call without the marker; a value
\* with ValidateWith is handed the marker, and an error it answers with is
\* the result of the call.
C2_SkipMarker ==
    /\ ActiveSkipStops
    /\ \A s \in 1..Len(drules0) :
          (Done /\ ReachedAt(s) /\ InactiveSkipAt(s)) =>
             /\ Evaluated(s)
             /\ IF "WithValidator" \in dv0.caps
                THEN IF ValidateWith(dv0, drules0[s]) # NoErr
                     THEN dres = ValidateWith(dv0, drules0[s])
                     ELSE (s < Len(drules0) /\ ~ActiveSkipAt(s + 1))
                             => Evaluated(s + 1)
                ELSE /\ (s < Len(drules0) /\ ~ActiveSkipAt(s + 1))
                             => Evaluated(s + 1)
                     /\ dres = Validate(dv0, WithoutInactiveSkips(drules0))

\* A value with ValidateWith is handed Skip.When(false) and rejects it.
C2_Witness ==
    /\ Done /\ ReachedAt(1) /\ InactiveSkipAt(1)
    /\ "WithValidator" \in dv0.caps
    /\ dres = ErrTst
    /\ dlog = <<Ev("with", 1)>>

\* C3: with every rule passed, a nil pointer or nil interface ends the call
\* with nil and its Validate() is not called; any other value with its own
\* Validate() is answered by exactly that call, without element recursion;
\* Validate() is never called once a rule failed.
C3_SelfValidation ==
    /\ (dv0.kind = "invalid" \/ (dv0.kind = "ptr" /\ dv0.isnil)) =>
          /\ Calls("self") = {}
          /\ (Done /\ AllPass) => dres = NoErr
    /\ (Done /\ AllPass /\ "Validator" \in dv0.caps
             /\ ~(dv0.kind = "ptr" /\ dv0.isnil)) =>
          /\ dres = dv0.self
          /\ Cardinality(Calls("self")) = 1
          /\ Calls("elem") = {}
          /\ dv = dv0
    /\ (\E f \in 1..Len(drules0) : ReachedAt(f) /\ FailsAt(f)) =>
          Calls("self") = {}

\* A slice type with its own Validate(): the rule passes, Validate() answers
\* and the failing elements are not looked at.
C3_Witness ==
    /\ Done /\ AllPass /\ Len(drules0) >= 1
    /\ dv0 = ModelsSelf
    /\ dres = ErrCustom
    /\ Calls("self") # {} /\ Calls("elem") = {}

(***************************************************************************)
(* Properties of the element recursion of Validate.                        *)
(***************************************************************************)
\* The positions of the elements of the caller's container whose Validate()
\* returns an error; a nil interface element has no Validate() to call.
FailingElems ==
    {k \in 1..Len(dv0.elems) : dv0.elems[k] # NilV /\ dv0.elems[k].self # NoErr}

\* The path key of the element at position k: the text of a string key, the
\* decimal digits of an int key or of a slice index.
PathKeyOf(k) ==
    IF dv0.kind = "map"
    THEN IF dv0.keys[k].kind = "string" THEN dv0.keys[k].s ELSE Itoa(dv0.keys[k].n)
    ELSE Itoa(k - 1)

\* A map, slice or array of self-validating elements, itself without
\* Validate(), every rule passed and every element's Validate() returning.
ContainerCase ==
    /\ op = "validate" /\ AllPass
    /\ dv0.kind \in {"map", "slice", "array"}
    /\ "ElemValidator" \in dv0.caps
    /\ "Validator" \notin dv0.caps
    /\ \A k \in 1..Len(dv0.elems) : dv0.elems[k].self # Panic

C4_WhenFalse ==
    (op = "rule" /\ rpc = "done" /\ rwhen = "false") => rres = NoErr

\* A rule that rejects the value (or reports its own misuse) when its
\* condition is true was switched off, and returned nil.
C4_Witness ==
    /\ op = "rule" /\ rpc = "done" /\ rwhen = "false"
    /\ rres = NoErr
    /\ RuleValidate([rrule EXCEPT !.condition = TRUE], rval) = ErrInvSetup

(***************************************************************************)
(* Structs in memory.  A struct value is the sequence of its declared      *)
(* fields; a field is a record:                                            *)
(*   name   the declared name                                              *)
(*   tag    the struct tag: tag key -> value (reflect.StructTag.Get)       *)
(*   typ    the declared type                                              *)
(*   anon   an anonymous (embedded) field                                  *)
(*   addr   the address of the field's storage                             *)
(*   kind   the reflect.Kind of the declared type                          *)
(*   sub    the fields of the struct the field holds or, for a non-nil     *)
(*          pointer to a struct, points to; <<>> otherwise                 *)
(*   isnil  a nil pointer                                                  *)
(* A pointer handed to Field is a record: kind ("ptr", or the kind of the  *)
(* value handed over instead), isnil, addr, typ (the pointee's type) and   *)
(* elem (the pointee as `any`).                                            *)
(***************************************************************************)
NoTag == [k \in {} |-> <<>>]
SField(name, tag, typ, anon, addr, kind, isnil, sub) ==
    [name |-> name, tag |-> tag, typ |-> typ, anon |-> anon, addr |-> addr,
     kind |-> kind, isnil |-> isnil, sub |-> sub]
NotFound == [name |-> <<>>]

\* reflect.StructTag.Get: the value under the key, "" when there is none.
TagGet(tag, key) == IF key \in DOMAIN tag THEN tag[key] ELSE <<>>

RECURSIVE BeforeComma(_)
\* strings.SplitN(tag, ",", 2)[0]
BeforeComma(str) ==
    IF str = <<>> \/ Head(str) = "," THEN <<>>
    ELSE <<Head(str)>> \o BeforeComma(Tail(str))

\* A name taken from the tag without cutting it at the comma.
getErrorFieldNameWholeTag(fieldTag, f) ==
    LET key == IF fieldTag = "" THEN ErrorTag ELSE fieldTag
        tag == TagGet(f.tag, key)
    IN IF tag # <<>> /\ tag # <<"-">> THEN tag ELSE f.name

\* A name that falls back on the ErrorTag tag when the field has no usable
\* tag of the binding's name.
getErrorFieldNameFallback(fieldTag, f) ==
    LET own == TagGet(f.tag, fieldTag)
        def == TagGet(f.tag, ErrorTag)
    IN IF fieldTag # "" /\ own # <<>> /\ own # <<"-">> /\ BeforeComma(own) # <<>>
       THEN BeforeComma(own)
       ELSE IF def # <<>> /\ def # <<"-">> /\ BeforeComma(def) # <<>>
       THEN BeforeComma(def)
       ELSE f.name

getErrorFieldName(fieldTag, f) ==
    LET key == IF fieldTag = "" THEN ErrorTag ELSE fieldTag
        tag == TagGet(f.tag, key)
    IN IF tag # <<>> /\ tag # <<"-">> /\ BeforeComma(tag) # <<>>
       THEN BeforeComma(tag)
       ELSE f.name

\* fi.Kind() == reflect.Struct, fi being the field or, for a pointer field,
\* what it points to.
HoldsStruct(sf) == sf.kind = "struct" \/ (sf.kind = "ptr" /\ ~sf.isnil /\ sf.sub # <<>>)

\* A search that does not compare the types.
findFromAddrOnly(s, f, i) ==
    IF \E k \in 1..Len(s) : s[k].addr = f.addr
    THEN s[CHOOSE k \in 1..Len(s) : s[k].addr = f.addr]
    ELSE NotFound

RECURSIVE findFrom(_, _, _)
\* The loop of findStructField from field i (counted from 1) down.
findFrom(s, f, i) ==
    IF i = 0 THEN NotFound
    ELSE IF f.addr = s[i].addr /\ s[i].typ = f.typ THEN s[i]
    ELSE IF s[i].anon /\ HoldsStruct(s[i])
              /\ findFrom(s[i].sub, f, Len(s[i].sub)) # NotFound
    THEN findFrom(s[i].sub, f, Len(s[i].sub))
    ELSE findFrom(s, f, i - 1)

findStructField(s, f) == findFrom(s, f, Len(s))

\* Field(fieldPtr, rules...) and (*FieldRules).Tag(tag).  Tag writes fr.tag
\* through its pointer receiver and returns that pointer; a binding is here
\* the FieldRules value the pointer leads to once the calls are made.
Field(fieldPtr, rules) == [fieldPtr |-> fieldPtr, tag |-> "", rules |-> rules]
Tag(fr, tag) == [fr EXCEPT !.tag = tag]

(***************************************************************************)
(* The structs of the tests (all_test.go, struct_test.go) laid out in      *)
(* memory, and pointers into them.                                         *)
(***************************************************************************)
TString == <<"string">>
TPString == <<"*", "string">>
Json(value) == ("json" :> value)

PtrAt(addr, typ, elem) ==
    [kind |-> "ptr", isnil |-> FALSE, addr |-> addr, typ |-> typ, elem |-> elem]
\* A typed nil pointer, and a value handed over in place of a pointer.
NilPtrArg(typ) ==
    [kind |-> "ptr", isnil |-> TRUE, addr |-> 0, typ |-> typ, elem |-> NilV]
NotPtrArg(v) ==
    [kind |-> v.kind, isnil |-> v.isnil, addr |-> 0, typ |-> v.typ, elem |-> v]

StrField(name, tag, addr) == SField(name, tag, TString, FALSE, addr, "string", FALSE, <<>>)

\* type TwoStr struct { FStr string; FStrPtr *string }
TwoStrAt(base) ==
    <<StrField(FStr, NoTag, base),
      SField(<<"F", "S", "t", "r", "P", "t", "r">>, NoTag, TPString, FALSE,
             base + 16, "ptr", FALSE, <<>>)>>

\* type TStruct struct (the fields the bindings below point at)
TStructAt(base) ==
    <<StrField(FStr, Json(<<"f", "_", "j", "s", "o", "n">>), base),
      StrField(<<"f", "S", "t", "r">>, NoTag, base + 16),
      SField(<<"F", "p", "S", "t", "r">>, Json(<<"-">>), TPString, FALSE,
             base + 32, "ptr", TRUE, <<>>),
      SField(<<"F", "s", "S", "t", "r">>,
             ("custom" :> <<"c", "u", "s", "t", "o", "m">>)
                @@ Json(<<"f", "s", "_", "s", "t", "r">>),
             <<"[]", "string">>, FALSE, base + 40, "slice", FALSE, <<>>),
      SField(<<"S", "V", "a", "l">>, NoTag, <<"TwoStr">>, FALSE, base + 64,
             "struct", FALSE, TwoStrAt(base + 64)),
      SField(<<"S", "N", "i", "l">>, NoTag, <<"*", "TwoStr">>, FALSE, base + 96,
             "ptr", TRUE, <<>>)>>

OmitEmpty == <<",", "o", "m", "i", "t", "e", "m", "p", "t", "y">>

\* type A struct of Test_getErrorFieldName_json_tabular
AAt(base) ==
    <<StrField(<<"F", "i", "e", "l", "d", "0">>, ("custom" :> <<"c", "u", "s", "t", "o", "m">>), base),
      StrField(<<"F", "i", "e", "l", "d", "1">>, Json(<<"f", "1">>), base + 16),
      StrField(<<"F", "i", "e", "l", "d", "2">>, Json(<<"f", "2">> \o OmitEmpty), base + 32),
      StrField(<<"F", "i", "e", "l", "d", "3">>, Json(OmitEmpty), base + 48),
      StrField(<<"F", "i", "e", "l", "d", "4">>, Json(<<"f", "4", ",", "x", "1">> \o OmitEmpty), base + 64)>>

NameTwoStr == <<"T", "w", "o", "S", "t", "r">>
NameModelVal == <<"M", "o", "d", "e", "l", "V", "a", "l">>

\* type Embedded struct { TwoStr }
EmbeddedAt(base) ==
    <<SField(NameTwoStr, NoTag, <<"TwoStr">>, TRUE, base, "struct", FALSE,
             TwoStrAt(base))>>

\* type EmbeddedPtr struct { *TwoStr }, the pointer leading to `target`
EmbeddedPtrAt(base, target) ==
    <<SField(NameTwoStr, NoTag, <<"*", "TwoStr">>, TRUE, base, "ptr", FALSE,
             TwoStrAt(target))>>
EmbeddedPtrNilAt(base) ==
    <<SField(NameTwoStr, NoTag, <<"*", "TwoStr">>, TRUE, base, "ptr", TRUE, <<>>)>>

\* type Model struct { ModelVal; SvSM1 ModelVal; SpSM1 *ModelVal; SpSM2 *ModelPtr }
ModelAt(base) ==
    <<SField(NameModelVal, NoTag, <<"ModelVal">>, TRUE, base, "struct", FALSE,
             <<StrField(FStr, NoTag, base)>>),
      SField(<<"S", "v", "S", "M", "1">>, NoTag, <<"ModelVal">>, FALSE, base + 16,
             "struct", FALSE, <<StrField(FStr, NoTag, base + 16)>>),
      SField(<<"S", "p", "S", "M", "1">>, NoTag, <<"*", "ModelVal">>, FALSE,
             base + 32, "ptr", TRUE, <<>>),
      SField(<<"S", "p", "S", "M", "2">>, NoTag, <<"*", "ModelPtr">>, FALSE,
             base + 40, "ptr", FALSE, <<StrField(FStr, NoTag, base + 200)>>)>>

\* The v argument of ValidateStruct: what reflect.ValueOf(v) tells of it.
StructPtr(typ, fields) ==
    [kind |-> "ptr", isnil |-> FALSE, elemKind |-> "struct", typ |-> <<"*">> \o typ,
     fields |-> fields]
NilArg(typ) ==
    [kind |-> "ptr", isnil |-> TRUE, elemKind |-> "invalid", typ |-> typ,
     fields |-> <<>>]
OtherArg(kind, elemKind, typ, fields) ==
    [kind |-> kind, isnil |-> kind = "invalid", elemKind |-> elemKind, typ |-> typ,
     fields |-> fields]

(***************************************************************************)
(* ValidateStruct(v, fields...) step by step.  slog records, per binding   *)
(* that got as far as the field search, the field found, the binding and   *)
(* what Validate returned for the field's value.                           *)
(***************************************************************************)
Binding == sfields[si]
\* sf := findStructField(val, fv)
FoundField == findStructField(sin.fields, Binding.fieldPtr)
\* err := Validate(v, fr.rules...) with v = fv.Elem().Interface()
FieldErr == Validate(Binding.fieldPtr.elem, Binding.rules)
SLoop == op = "struct" /\ spc = "loop" /\ si <= Len(sfields)
SFound == SLoop /\ Binding.fieldPtr.kind = "ptr" /\ FoundField # NotFound
Logged(err) ==
    Append(slog, [i |-> si - 1, sf |-> FoundField, fr |-> Binding, err |-> err,
                  before |-> sers])

\* A test of v that takes any pointer that does not lead to a struct for
\* misuse, the nil ones included.
IsNotStructPtrStrict(val) == val.kind # "ptr" \/ val.elemKind # "struct"

\* val.Kind() != reflect.Ptr || !val.IsNil() && val.Elem().Kind() != reflect.Struct
IsNotStructPtr(val) ==
    val.kind # "ptr" \/ (~val.isnil /\ val.elemKind # "struct")

SNotStructPtr ==
    /\ op = "struct" /\ spc = "start"
    /\ IsNotStructPtr(sin)
    /\ sres' = ErrNotStructPtr
    /\ spc' = "done"
    /\ UNCHANGED <<op, sin, sfields, si, sers, slog, ErrorTag, dvars, rvars, nvars, hvars, cvars>>

\* if val.IsNil() { return nil }
SNilStruct ==
    /\ op = "struct" /\ spc = "start"
    /\ ~IsNotStructPtr(sin)
    /\ sin.isnil
    /\ sres' = NoErr
    /\ spc' = "done"
    /\ UNCHANGED <<op, sin, sfields, si, sers, slog, ErrorTag, dvars, rvars, nvars, hvars, cvars>>

\* val = val.Elem(); var ers xrr.Fields
SEnter ==
    /\ op = "struct" /\ spc = "start"
    /\ ~IsNotStructPtr(sin)
    /\ ~sin.isnil
    /\ spc' = "loop"
    /\ si' = 1
    /\ sers' = NoFields
    /\ UNCHANGED <<op, sin, sfields, sres, slog, ErrorTag, dvars, rvars, nvars, hvars, cvars>>

\* if fv.Kind() != reflect.Ptr { return ErrFieldPointer(i) }
SFieldPointer ==
    /\ SLoop
    /\ Binding.fieldPtr.kind # "ptr"
    /\ sres' = ErrFieldPointer(si - 1)
    /\ spc' = "done"
    /\ UNCHANGED <<op, sin, sfields, si, sers, slog, ErrorTag, dvars, rvars, nvars, hvars, cvars>>

\* if sf == nil { return ErrFieldNotFound(i) }
SFieldNotFound ==
    /\ SLoop
    /\ Binding.fieldPtr.kind = "ptr"
    /\ FoundField = NotFound
    /\ sres' = ErrFieldNotFound(si - 1)
    /\ spc' = "done"
    /\ UNCHANGED <<op, sin, sfields, si, sers, slog, ErrorTag, dvars, rvars, nvars, hvars, cvars>>

\* Validate returned nil: on to the next binding.
SFieldValid ==
    /\ SFound
    /\ FieldErr = NoErr
    /\ si' = si + 1
    /\ slog' = Logged(NoErr)
    /\ UNCHANGED <<op, sin, sfields, spc, sers, sres, ErrorTag, dvars, rvars, nvars, hvars, cvars>>

\* A loop that collects an internal error like any other and goes on.
SFieldInternalStore ==
    /\ op = "struct" /\ spc = "loop" /\ si <= Len(sfields)
    /\ Binding.fieldPtr.kind = "ptr" /\ FoundField # NotFound
    /\ FieldErr # NoErr
    /\ GetCode(FieldErr) = ECInternal
    /\ sers' = Put(sers, getErrorFieldName(Binding.tag, FoundField), FieldErr)
    /\ si' = si + 1
    /\ slog' = Logged(FieldErr)
    /\ UNCHANGED <<op, sin, sfields, spc, sres, ErrorTag, dvars, rvars, nvars, hvars, cvars>>

\* if xrr.GetCode(err) == ECInternal { return xrr.New("<name>: <err>", ECInternal) }
SFieldInternal ==
    /\ SFound
    /\ FieldErr # NoErr
    /\ GetCode(FieldErr) = ECInternal
    /\ sres' = Prefixed(getErrorFieldName(Binding.tag, FoundField), FieldErr, ECInternal)
    /\ spc' = "done"
    /\ slog' = Logged(FieldErr)
    /\ UNCHANGED <<op, sin, sfields, si, sers, ErrorTag, dvars, rvars, nvars, hvars, cvars>>

\* for name, value := range es.ErrorFields() { ers[name] = value }
MergeFields(ers, es) ==
    [k \in DOMAIN ers \cup DOMAIN es |-> IF k \in DOMAIN es THEN es[k] ELSE ers[k]]

\* A loop that nests the Fields error of an embedded field under its name.
SFieldNest ==
    /\ SFound
    /\ FieldErr # NoErr
    /\ GetCode(FieldErr) # ECInternal
    /\ FoundField.anon /\ FieldErr.kind = "fields"
    /\ sers' = Put(sers, getErrorFieldName(Binding.tag, FoundField), FieldErr)
    /\ si' = si + 1
    /\ slog' = Logged(FieldErr)
    /\ UNCHANGED <<op, sin, sfields, spc, sres, ErrorTag, dvars, rvars, nvars, hvars, cvars>>

\* if sf.Anonymous { if es, ok := err.(xrr.Fielder); ok { merge; continue } }
SFieldMerge ==
    /\ SFound
    /\ FieldErr # NoErr
    /\ GetCode(FieldErr) # ECInternal
    /\ FoundField.anon /\ FieldErr.kind = "fields"
    /\ sers' = MergeFields(sers, FieldErr.fields)
    /\ si' = si + 1
    /\ slog' = Logged(FieldErr)
    /\ UNCHANGED <<op, sin, sfields, spc, sres, ErrorTag, dvars, rvars, nvars, hvars, cvars>>

\* ers[getErrorFieldName(fr.tag, sf)] = err
SFieldStore ==
    /\ SFound
    /\ FieldErr # NoErr
    /\ GetCode(FieldErr) # ECInternal
    /\ ~(FoundField.anon /\ FieldErr.kind = "fields")
    /\ sers' = Put(sers, getErrorFieldName(Binding.tag, FoundField), FieldErr)
    /\ si' = si + 1
    /\ slog' = Logged(FieldErr)
    /\ UNCHANGED <<op, sin, sfields, spc, sres, ErrorTag, dvars, rvars, nvars, hvars, cvars>>

\* return ers.Filter()
SReturn ==
    /\ op = "struct" /\ spc = "loop" /\ si > Len(sfields)
    /\ sres' = FieldsFilter(sers)
    /\ spc' = "done"
    /\ UNCHANGED <<op, sin, sfields, si, sers, slog, ErrorTag, dvars, rvars, nvars, hvars, cvars>>

(***************************************************************************)
(* The calls of ValidateStruct the model makes: a struct of the tests, or  *)
(* something that is no pointer to a struct, with bindings drawn from the  *)
(* pointers a caller can write down for it.                                *)
(***************************************************************************)
RNone == <<>>
RReq == <<Required>>
RErr == <<Error(ErrCustom)>>
RInternal == <<By("Internal")>>

TStructBase == 100
ABase == 700
EmbeddedBase == 300
EmbeddedPtrBase == 400
TwoStrBase == 500
ModelBase == 600
Elsewhere == 900

TStructVal == StructOf(<<"TStruct">>, 9, StrEmpty)

\* mf := NewTStruct() with mf.FStr = "" and mf.FpStr = nil
TStructBindings ==
    LET pFStr == PtrAt(TStructBase, TString, StrEmpty)
        pfStr == PtrAt(TStructBase + 16, TString, StrAbc)
        pFpStr == PtrAt(TStructBase + 32, TPString, NilPtr(TString))
        pFsStr == PtrAt(TStructBase + 40, <<"[]", "string">>, SliceStr)
        pSVal == PtrAt(TStructBase + 64, <<"TwoStr">>, TwoStr)
    IN {Field(pFStr, RReq), Tag(Field(pFStr, RReq), "json"),
        Tag(Field(pFStr, RReq), "custom"),
        Field(pfStr, RErr), Field(pfStr, RNone), Field(pfStr, RInternal),
        Field(pFpStr, RReq),
        Field(pFsStr, RErr), Tag(Field(pFsStr, RErr), "custom"),
        Field(pSVal, RErr),
        \* &mf.SVal.FStr, &mf, &copy, mf.FStr, (*string)(nil), nil
        Field(PtrAt(TStructBase + 64, TString, StrAbc), RErr),
        Field(PtrAt(TStructBase, <<"TStruct">>, TStructVal), RNone),
        Field(PtrAt(Elsewhere, TString, StrEmpty), RReq),
        Field(NotPtrArg(StrEmpty), RReq),
        Field(NilPtrArg(TString), RReq),
        Field(NotPtrArg(NilV), RNone)}

ABindings ==
    UNION {{Field(PtrAt(ABase + 16 * k, TString, StrEmpty), RReq),
            Tag(Field(PtrAt(ABase + 16 * k, TString, StrEmpty), RReq), "json"),
            Tag(Field(PtrAt(ABase + 16 * k, TString, StrEmpty), RReq), "custom")}
           : k \in 0..4}

\* em := NewEmbedded(): &em.TwoStr, &em.FStr, &em.FStrPtr, &em
EmbeddedBindings ==
    {Field(PtrAt(EmbeddedBase, <<"TwoStr">>, TwoStr), RErr),
     Field(PtrAt(EmbeddedBase, TString, StrAbc), RErr),
     Field(PtrAt(EmbeddedBase + 16, TPString, PtrTo(StrAbc)), RErr),
     Field(PtrAt(EmbeddedBase, <<"Embedded">>, StructOf(<<"Embedded">>, 1, TwoStr)), RNone)}

\* ep := NewEmbeddedPtr(): &ep.TwoStr, &ep.FStr, &ep.FStrPtr, ep.TwoStr
EmbeddedPtrBindings ==
    {Field(PtrAt(EmbeddedPtrBase, <<"*", "TwoStr">>, PtrTo(TwoStr)), RErr),
     Field(PtrAt(TwoStrBase, TString, StrAbc), RErr),
     Field(PtrAt(TwoStrBase + 16, TPString, PtrTo(StrAbc)), RErr),
     Field(PtrAt(TwoStrBase, <<"TwoStr">>, TwoStr), RErr)}

\* ep := EmbeddedPtr{}: &ep.TwoStr, and a pointer into another TwoStr
EmbeddedPtrNilBindings ==
    {Field(PtrAt(EmbeddedPtrBase, <<"*", "TwoStr">>, NilPtr(<<"TwoStr">>)), RReq),
     Field(PtrAt(TwoStrBase, TString, StrAbc), RErr)}

\* s := Model{ModelVal{""}, ModelVal{"xyz"}, nil, &ModelPtr{"xyz"}}
ModelBindings ==
    {Field(PtrAt(ModelBase, <<"ModelVal">>, ModelValBlank), RNone),
     Field(PtrAt(ModelBase, <<"ModelVal">>, ModelValBlank), RErr),
     Field(PtrAt(ModelBase, <<"ModelVal">>, ModelValBlank), RInternal),
     Field(PtrAt(ModelBase, TString, StrEmpty), RErr),
     Field(PtrAt(ModelBase + 16, <<"ModelVal">>, ModelValBad), RNone),
     Field(PtrAt(ModelBase + 16, TString, StrXyz), RErr),
     Field(PtrAt(ModelBase + 40, <<"*", "ModelPtr">>, ModelPtrBad), RNone)}

MisuseBindings ==
    {Field(PtrAt(TStructBase, TString, StrEmpty), RReq),
     Field(NotPtrArg(StrEmpty), RReq)}

StructCalls ==
    {[v |-> StructPtr(<<"TStruct">>, TStructAt(TStructBase)), b |-> TStructBindings],
     [v |-> StructPtr(<<"A">>, AAt(ABase)), b |-> ABindings],
     [v |-> StructPtr(<<"Embedded">>, EmbeddedAt(EmbeddedBase)), b |-> EmbeddedBindings],
     [v |-> StructPtr(<<"EmbeddedPtr">>, EmbeddedPtrAt(EmbeddedPtrBase, TwoStrBase)),
      b |-> EmbeddedPtrBindings],
     [v |-> StructPtr(<<"EmbeddedPtr">>, EmbeddedPtrNilAt(EmbeddedPtrBase)),
      b |-> EmbeddedPtrNilBindings],
     [v |-> StructPtr(<<"Model">>, ModelAt(ModelBase)), b |-> ModelBindings],
     \* mf, (*TStruct)(nil), (*int)(nil), new(int), nil, "abc"
     [v |-> OtherArg("struct", "", <<"TStruct">>, TStructAt(TStructBase)),
      b |-> MisuseBindings],
     [v |-> NilArg(<<"*", "TStruct">>), b |-> MisuseBindings],
     [v |-> NilArg(<<"*", "int">>), b |-> MisuseBindings],
     [v |-> OtherArg("ptr", "int", <<"*", "int">>, <<>>), b |-> MisuseBindings],
     [v |-> OtherArg("invalid", "", <<"nil">>, <<>>), b |-> MisuseBindings],
     [v |-> OtherArg("string", "", TString, <<>>), b |-> MisuseBindings]}

InitStruct ==
    /\ op = "struct"
    /\ \E c \in StructCalls :
          /\ sin = c.v
          /\ sfields \in SeqsUpTo(c.b, MaxBindings)
    /\ ErrorTag \in {"json", "custom"}
    /\ spc = "start"
    /\ si = 0
    /\ sers = NoFields
    /\ sres = NoErr
    /\ slog = <<>>
    /\ IdleValidate /\ IdleRule /\ IdleNamed /\ IdleShare /\ IdleClassify

NextStruct ==
    \/ SNotStructPtr \/ SNilStruct \/ SEnter
    \/ SFieldPointer \/ SFieldNotFound
    \/ SFieldValid \/ SFieldInternal \/ SFieldMerge \/ SFieldStore
    \/ SReturn

SpecStruct == InitStruct /\ [][NextStruct]_vars

(***************************************************************************)
(* Properties of ValidateStruct.                                           *)
(***************************************************************************)
SDone == op = "struct" /\ spc = "done"

RECURSIVE AllFields(_)
\* The declared fields of a struct and of the structs embedded in it,
\* through embedded pointers too.
AllFields(s) ==
    UNION {{s[i]} \cup (IF s[i].anon /\ s[i].sub # <<>> THEN AllFields(s[i].sub) ELSE {})
           : i \in 1..Len(s)}

\* The fields at the pointer's address that have the pointee's type.
Matches(fp) == {f \in AllFields(sin.fields) : f.addr = fp.addr /\ f.typ = fp.typ}

\* C6: a binding resolves to the declared field, top-level or embedded,
\* that lies at the pointer's address and has the pointee's type, and to no
\* field when there is none; so the pointer to an embedded struct and the
\* pointer to its first field resolve to different fields.
C6_FieldResolution ==
    /\ \A k \in 1..Len(slog) : Matches(slog[k].fr.fieldPtr) = {slog[k].sf}
    /\ SLoop /\ Binding.fieldPtr.kind = "ptr" =>
          IF Matches(Binding.fieldPtr) = {} THEN FoundField = NotFound
          ELSE Matches(Binding.fieldPtr) = {FoundField}
    /\ (SDone /\ sres.kind = "ErrFieldNotFound") =>
          Matches(sfields[sres.idx + 1].fieldPtr) = {}

\* &em.TwoStr and &em.FStr hold one address and resolve to the embedded
\* field and to the field inside it.
C6_Witness ==
    /\ SDone /\ Len(slog) = 2
    /\ slog[1].fr.fieldPtr.addr = slog[2].fr.fieldPtr.addr
    /\ slog[1].sf.anon /\ ~slog[2].sf.anon
    /\ slog[1].sf.name = NameTwoStr /\ slog[2].sf.name = FStr

StructTypes == {"TStruct", "A", "Embedded", "EmbeddedPtr", "Model"}
\* v is a pointer whose pointee type is a struct.
PointsToStruct(val) ==
    val.kind = "ptr" /\ Len(val.typ) = 2 /\ val.typ[2] \in StructTypes

\* Binding k is handed over as a pointer, resolves to a field, and the
\* validation of the field reports no internal error.
BindingPasses(k) ==
    /\ sfields[k].fieldPtr.kind = "ptr"
    /\ Matches(sfields[k].fieldPtr) # {}
    /\ GetCode(Validate(sfields[k].fieldPtr.elem, sfields[k].rules)) # ECInternal

\* For a non-nil struct pointer: the first binding that is no pointer, or
\* matches no field, ends the call with its error alone.
BindingMisuse ==
    (SDone /\ PointsToStruct(sin) /\ ~sin.isnil) =>
       \A k \in 1..Len(sfields) :
          (\A j \in 1..(k - 1) : BindingPasses(j)) =>
             /\ sfields[k].fieldPtr.kind # "ptr" =>
                   /\ sres = ErrFieldPointer(k - 1)
                   /\ GetCode(sres) = ECInternal
                   /\ Len(slog) = k - 1
             /\ (sfields[k].fieldPtr.kind = "ptr"
                    /\ Matches(sfields[k].fieldPtr) = {}) =>
                   /\ sres = ErrFieldNotFound(k - 1)
                   /\ GetCode(sres) = ECInternal
                   /\ Len(slog) = k - 1

\* C7 (as stated): every input that is no pointer to a struct yields
\* ErrNotStructPtr, and the misuse of a binding ends the call with
\* ErrFieldPointer(i) or ErrFieldNotFound(i) alone.
C7_NotStructPtrAlways ==
    /\ (SDone /\ ~PointsToStruct(sin)) =>
          (sres = ErrNotStructPtr /\ GetCode(sres) = ECInternal /\ slog = <<>>)
    /\ BindingMisuse

\* C7 (amended): an input that is no pointer, or a non-nil pointer to
\* something else than a struct, yields ErrNotStructPtr; a nil pointer of
\* any type is valid and yields nil; the misuse of a binding ends the call
\* with ErrFieldPointer(i) or ErrFieldNotFound(i) alone.
C7_Misuse ==
    /\ (SDone /\ (sin.kind # "ptr" \/ (~sin.isnil /\ sin.elemKind # "struct"))) =>
          (sres = ErrNotStructPtr /\ GetCode(sres) = ECInternal /\ slog = <<>>)
    /\ (SDone /\ sin.kind = "ptr" /\ sin.isnil) => (sres = NoErr /\ slog = <<>>)
    /\ BindingMisuse

\* The second binding matches no field: ErrFieldNotFound(1) is all that is
\* returned, the error collected for the first binding is gone.
C7_Witness ==
    /\ SDone /\ Len(sfields) = 2
    /\ sres = ErrFieldNotFound(1)
    /\ DOMAIN sers # {}

\* What ers holds right after the binding of log entry k was processed.
ErsAfter(k) == IF k < Len(slog) THEN slog[k + 1].before ELSE sers

\* The position of the first comma of a text, one past its end without one.
FirstComma(str) ==
    IF \E n \in 1..Len(str) : str[n] = ","
    THEN CHOOSE n \in 1..Len(str) : str[n] = "," /\ \A m \in 1..(n - 1) : str[m] # ","
    ELSE Len(str) + 1

\* The name part of the tag `key` of field f; <<>> when there is no such
\* tag, when it is empty or "-", or when nothing precedes its comma.
TagName(f, key) ==
    IF key \notin DOMAIN f.tag THEN <<>>
    ELSE IF f.tag[key] = <<>> \/ f.tag[key] = <<"-">> THEN <<>>
    ELSE SubSeq(f.tag[key], 1, FirstComma(f.tag[key]) - 1)

\* The error of log entry e is stored under the field's own path name: it
\* is no internal error and is not merged as an embedded field's Fields.
StoredUnderName(e) ==
    /\ e.err # NoErr
    /\ GetCode(e.err) # ECInternal
    /\ ~(e.sf.anon /\ e.err.kind = "fields")

\* C8: a field's error is reported under the name part (up to the first
\* comma) of the tag named by the binding's Tag, or by ErrorTag when the
\* binding has none; under the declared field name when that tag is
\* missing, empty, "-" or has no name part.
C8_PathName ==
    \A k \in 1..Len(slog) :
       LET e == slog[k]
           selected == IF e.fr.tag = "" THEN ErrorTag ELSE e.fr.tag
           name == IF TagName(e.sf, selected) = <<>> THEN e.sf.name
                   ELSE TagName(e.sf, selected)
       IN /\ StoredUnderName(e) => ErsAfter(k) = Put(e.before, name, e.err)
          /\ (SDone /\ k = Len(slog) /\ sres.kind = "prefixed") => sres.name = name

\* Field2 `json:"f2,omitempty"` and Field3 `json:",omitempty"` under the
\* default tag: "f2" and "Field3".
C8_Witness ==
    /\ SDone /\ ErrorTag = "json" /\ Len(slog) = 2
    /\ \A k \in 1..2 : slog[k].fr.tag = ""
    /\ sres.kind = "fields"
    /\ DOMAIN sres.fields = {<<"f", "2">>, <<"F", "i", "e", "l", "d", "3">>}

\* The text of a tag name.
TagText(tag) ==
    IF tag = "json" THEN <<"j", "s", "o", "n">>
    ELSE IF tag = "custom" THEN <<"c", "u", "s", "t", "o", "m">>
    ELSE <<>>

\* C9 (as stated): the error is reported under the binding's override name
\* when one is set; else under the name part of the field's ErrorTag tag;
\* else under the declared field name.
C9_OverrideName ==
    [][SFieldStore =>
          sers' = Put(sers,
                      IF Binding.tag # "" THEN TagText(Binding.tag)
                      ELSE IF TagName(FoundField, ErrorTag) # <<>>
                      THEN TagName(FoundField, ErrorTag)
                      ELSE FoundField.name,
                      FieldErr)]_vars

\* C9 (amended): what a binding sets with Tag is the name of the struct tag
\* to read, not the path name.  With Tag(t) the error is reported under the
\* name part of the field's tag t, and under the declared field name when
\* the field has no usable tag t: the ErrorTag tag is not consulted then.
\* Without Tag it is reported under the name part of the ErrorTag tag, else
\* under the declared field name.
C9_NameChain ==
    [][SFieldStore =>
          sers' = Put(sers,
                      IF Binding.tag # ""
                      THEN IF TagName(FoundField, Binding.tag) # <<>>
                           THEN TagName(FoundField, Binding.tag)
                           ELSE FoundField.name
                      ELSE IF TagName(FoundField, ErrorTag) # <<>>
                      THEN TagName(FoundField, ErrorTag)
                      ELSE FoundField.name,
                      FieldErr)]_vars

\* Field(&mf.FStr, Required).Tag("custom") on FStr `json:"f_json"`: the
\* error is reported under "FStr", neither "custom" nor "f_json".
C9_Witness ==
    /\ SDone /\ ErrorTag = "json" /\ Len(slog) = 1
    /\ slog[1].fr.tag = "custom"
    /\ "json" \in DOMAIN slog[1].sf.tag /\ "custom" \notin DOMAIN slog[1].sf.tag
    /\ sres = Fields((FStr :> ErrReq))

\* C10: the Fields error of an embedded field has each of its entries
\* written, key and error unchanged, into the top level of the errors
\* being collected, nothing being stored under the embedded field's name;
\* any other error of an embedded field is stored under that field's path
\* name.  What is collected is what the call returns.
C10_EmbeddedMerge ==
    /\ \A k \in 1..Len(slog) :
          LET e == slog[k]
          IN (e.sf.anon /\ e.err # NoErr /\ GetCode(e.err) # ECInternal) =>
                IF e.err.kind = "fields"
                THEN /\ DOMAIN ErsAfter(k) = DOMAIN e.before \cup DOMAIN e.err.fields
                     /\ \A key \in DOMAIN e.err.fields :
                           ErsAfter(k)[key] = e.err.fields[key]
                     /\ \A key \in DOMAIN e.before \ DOMAIN e.err.fields :
                           ErsAfter(k)[key] = e.before[key]
                ELSE ErsAfter(k) =
                        Put(e.before, getErrorFieldName(e.fr.tag, e.sf), e.err)
    /\ (SDone /\ sres.kind = "fields") =>
          /\ DOMAIN sres.fields = {key \in DOMAIN sers : sers[key] # NoErr}
          /\ \A key \in DOMAIN sres.fields : sres.fields[key] = sers[key]

\* Field(&s.ModelVal) on Model{ModelVal{""}, ...} after Field(&s.SvSM1):
\* the result holds FStr at the top level, beside SvSM1.
C10_Witness ==
    /\ SDone /\ Len(slog) = 2
    /\ slog[2].sf.anon /\ slog[2].sf.name = NameModelVal
    /\ slog[2].err = ErrFStrBlank
    /\ sres.kind = "fields"
    /\ DOMAIN sres.fields = {FStr, <<"S", "v", "S", "M", "1">>}
    /\ sres.fields[FStr] = ErrReq

\* C11: when the validation of a bound field yields an error with code
\* ECInternal, ValidateStruct stops at that binding: no later binding is
\* evaluated, and the call returns one new error with code ECInternal made
\* of the field's path name and the text of that error; the result is no
\* Fields error and holds nothing of what was collected before.
C11_InternalAborts ==
    \A k \in 1..Len(slog) :
       LET e == slog[k]
           selected == IF e.fr.tag = "" THEN ErrorTag ELSE e.fr.tag
           name == IF TagName(e.sf, selected) = <<>> THEN e.sf.name
                   ELSE TagName(e.sf, selected)
       IN (e.err # NoErr /\ GetCode(e.err) = ECInternal) =>
             /\ k = Len(slog)
             /\ SDone
             /\ si = e.i + 1 /\ si <= Len(sfields)
             /\ sres = [kind |-> "prefixed", name |-> name, inner |-> e.err,
                        code |-> ECInternal]
             /\ sres.kind # "fields"
             /\ GetCode(sres) = ECInternal

\* Field(&mf.FStr, Required), Field(&mf.fStr, InternalErrRule): the error
\* collected for FStr is dropped, "fStr: internal error" is returned.
C11_Witness ==
    /\ SDone /\ Len(sfields) = 2 /\ Len(slog) = 2
    /\ DOMAIN slog[2].before # {}
    /\ sres = Prefixed(<<"f", "S", "t", "r">>, ErrInternalRule, ECInternal)

(***************************************************************************)
(* Each, Map, Code, Error and When, stated over SpecRule.                  *)
(***************************************************************************)
RDone == op = "rule" /\ rpc = "done"

\* C12 (as stated): no entry of a returned Fields error carries the code
\* ECInternal; an internal error met while validating an element or a key
\* is returned on its own.
C12_InternalNeverStored ==
    (RDone /\ rres.kind = "fields") =>
        \A n \in DOMAIN rres.fields : GetCode(rres.fields[n]) # ECInternal

\* The name the claim gives an element: the text of a string key, the
\* decimal digits of an integer key, the decimal index in a slice or array.
EachKeyName(i) ==
    IF rval.kind = "map"
    THEN IF rval.keys[i].kind = "int" THEN Itoa(rval.keys[i].n) ELSE rval.keys[i].s
    ELSE Itoa(i - 1)

IsNilElem(e) == e = NilV \/ (e.kind = "ptr" /\ e.isnil)

\* The element at position i as it is stored, a nil pointer or nil
\* interface element as the untyped nil.
Handed(i) == IF IsNilElem(rval.elems[i]) THEN NilV ELSE rval.elems[i]

EachFailing ==
    {i \in 1..Len(rval.elems) : Validate(Handed(i), rrule.rules) # NoErr}

MapArg == IF rval.kind = "ptr" /\ ~rval.isnil THEN rval.elems[1] ELSE rval

MapKeyName(key) == IF key.kind = "int" THEN Itoa(key.n) ELSE key.s
KeyPresent(kr) == \E i \in 1..Len(MapArg.keys) : MapArg.keys[i] = kr.key
ValueAt(kr) == MapArg.elems[CHOOSE i \in 1..Len(MapArg.keys) : MapArg.keys[i] = kr.key]

\* What the claim gives a binding: key-missing, the error of its rules on
\* the value at the key, or nothing.
BindingErr(kr) ==
    IF KeyPresent(kr) THEN Validate(ValueAt(kr), kr.rules)
    ELSE IF kr.optional THEN NoErr
    ELSE ErrKeyMissing

\* The keys of the map covered by no binding.
UnknownKeys ==
    {MapArg.keys[i] : i \in
        {j \in 1..Len(MapArg.keys) :
            \A k \in 1..Len(rrule.keys) : rrule.keys[k].key # MapArg.keys[j]}}

\* A Map rule has validated a non-nil map keyed by strings or integers,
\* with bindings whose keys are of the map's key type and none of which
\* reports library misuse.
MapCase ==
    /\ RDone /\ rrule.kind = "map"
    /\ MapArg.kind = "map" /\ ~MapArg.isnil
    /\ MapArg.typ[2] \in {"string", "int"}
    /\ \A k \in 1..Len(rrule.keys) :
          /\ rrule.keys[k].key.kind = MapArg.typ[2]
          /\ BindingErr(rrule.keys[k]) # Panic
          /\ GetCode(BindingErr(rrule.keys[k])) # ECInternal

IsNilValue(v) == v = NilV \/ (v.kind \in {"map", "ptr"} /\ v.isnil)

\* C15 (as stated): Map(...).Validate(v) returns nil for every nil v,
\* whatever the bindings; a non-nil v that is no map and no pointer to a
\* map yields ErrNotMapPtr, whose code is ECInternal.
C15_NilIsValid ==
    (RDone /\ rrule.kind = "map") =>
        /\ IsNilValue(rval) => rres = NoErr
        /\ (~IsNilValue(rval) /\ MapArg.kind # "map") =>
              (rres = ErrNotMapPtr /\ GetCode(rres) = ECInternal)

\* The predicate of the built rule fails on the value: with a custom error
\* in place, that error (under the rule's code) is what comes back.
Marker == Leaf("marker", "ECMarker")
PredicateFails ==
    IF rrule.kind = "error" THEN rrule.condition
    ELSE /\ HasError(rrule)
         /\ LET m == RuleValidate([rrule EXCEPT !.err = Marker], rval)
            IN m = Marker \/ (m.kind = "wrap" /\ m.inner = Marker)

\* C16 (as stated): when r.Code(c).Error(e) fails it returns exactly e,
\* whose code is e's own; for every rule with Code and Error, the By,
\* Dynamic and When rules included.
C16_ErrorClearsCode ==
    (/\ RDone /\ Len(rhist) = 2
     /\ rhist[1].m = "Code" /\ rhist[2].m = "Error"
     /\ PredicateFails) =>
        (rres = rhist[2].err /\ GetCode(rres) = GetCode(rhist[2].err))

\* The error the rule had before its last customization call: the default
\* error or the custom one, as Validate reports it; By, Dynamic and When
\* keep the code apart from it.
CurrentError ==
    LET before == rhist[Len(rhist)].before
    IN IF before.kind \in {"by", "dynamic", "when"}
       THEN RuleValidate([before EXCEPT !.code = ""], rval)
       ELSE RuleValidate(before, rval)

\* C17 (as stated): after Code(c) a failing rule returns its current error
\* under code c with the same message: wrapped with c, the same error when
\* it carries c already, untouched when c is empty; a rule that passes
\* still passes.
C17_CodeWraps ==
    (RDone /\ rhist # <<>> /\ rhist[Len(rhist)].m = "Code") =>
        LET c == rhist[Len(rhist)].code
            cur == CurrentError
        IN /\ cur = NoErr => rres = NoErr
           /\ PredicateFails =>
                 IF c = "" \/ GetCode(cur) = c THEN rres = cur
                 ELSE rres = Wrap(cur, c) \/ rres = [cur EXCEPT !.code = c]

\* The argument of the last call of method m on the rule, none when it was
\* never called.
LastCalls(m) == {k \in 1..Len(rhist) : rhist[k].m = m}
LastCall(m) == rhist[CHOOSE k \in LastCalls(m) : \A j \in LastCalls(m) : j <= k]
CustomErr == IF LastCalls("Error") = {} THEN NoErr ELSE LastCall("Error").err
CustomCode == IF LastCalls("Code") = {} THEN "" ELSE LastCall("Code").code

\* C18: a When rule evaluates the rules given to When if the condition is
\* true and the rules given to Else (none by default) otherwise, and never
\* the other branch.  When that branch fails the rule returns the custom
\* error if Error was called, else the branch's error, under the code given
\* to Code if there is one; when the branch passes it returns nil.
C18_When ==
    (RDone /\ rrule.kind = "when") =>
        LET branch == IF rrule.condition THEN rrule.rules ELSE rrule.elseRules
            err == Validate(rval, branch)
            base == IF CustomErr # NoErr THEN CustomErr ELSE err
        IN IF err = Panic THEN rres = Panic
           ELSE IF err = NoErr THEN rres = NoErr
           ELSE IF CustomCode = "" \/ GetCode(base) = CustomCode THEN rres = base
           ELSE rres = Wrap(base, CustomCode)

\* When(true, Required).Else(By(nil)).Code("ECMy") on "": the branch of
\* Required fails and its error comes back under ECMy; By(nil), which
\* panics when called, was not evaluated.
C18_Witness ==
    /\ RDone /\ rrule.kind = "when" /\ rrule.condition
    /\ rrule.elseRules = <<By("nil")>>
    /\ rval = StrEmpty
    /\ rres = Wrap(ErrReq, "ECMy")

(***************************************************************************)
(* Set, stated over SpecValidate: the call is Validate(v, Set{R...}).      *)
(***************************************************************************)
SetCase == Done /\ Len(drules0) = 1 /\ drules0[1].kind = "set"

\* C19 (as stated): Set(R).Validate(v), Validate(v, Set(R)) and
\* Validate(v, R...) return the same result, for every v and every R,
\* lists with Skip included.
C19_SetSame ==
    SetCase =>
        /\ RuleValidate(drules0[1], dv0) = Validate(dv0, drules0[1].rules)
        /\ dres = Validate(dv0, drules0[1].rules)

\* The evaluation of R on v ends at an active Skip: every rule before it
\* passes.
SkipEnds(v, R) ==
    \E i \in 1..Len(R) :
        /\ R[i].kind = "skip" /\ R[i].condition
        /\ \A j \in 1..(i - 1) :
              (R[j].kind = "skip" /\ ~R[j].condition) \/ RuleValidate(R[j], v) = NoErr

\* C19 (amended): Set(R).Validate(v) and Validate(v, R...) return the same
\* result.  For a v without ValidateWith, Validate(v, Set(R)) returns it
\* too, unless the evaluation of R ends at an active Skip: the Skip ends
\* the Set only, and the call returns what Validate(v) without rules
\* returns.
C19_SetGroup ==
    SetCase =>
        /\ RuleValidate(drules0[1], dv0) = Validate(dv0, drules0[1].rules)
        /\ "WithValidator" \notin dv0.caps =>
              dres = IF SkipEnds(dv0, drules0[1].rules) THEN Validate(dv0, <<>>)
                     ELSE Validate(dv0, drules0[1].rules)

\* Validate(&ModelPtr{"xyz"}, Set{Skip}) reports FStr, while
\* Validate(&ModelPtr{"xyz"}, Skip) returns nil.
C19_Witness ==
    /\ SetCase /\ dv0 = ModelPtrBad /\ drules0[1].rules = <<Skip>>
    /\ Validate(dv0, drules0[1].rules) = NoErr
    /\ dres = ErrFStrAbc

(***************************************************************************)
(* Named: a map from names to rules.  NewNamed() is the empty map; Set     *)
(* writes into the receiver and returns it.  nhist records the Set calls,  *)
(* nmode, nname and nres the last call and what a lookup returned.         *)
(***************************************************************************)
\* The nil Rule.
NilRule == [kind |-> "nil"]

NewNamed == [name \in {} |-> NilRule]

\* n[name] = rule
NamedSet(n, name, rule) ==
    [k \in DOMAIN n \cup {name} |-> IF k = name THEN rule ELSE n[k]]

\* Named.Get
NamedGet(n, name) == IF name \in DOMAIN n THEN n[name] ELSE NilRule

\* Named.GetOrError
NamedGetOrError(n, name) ==
    IF NamedGet(n, name) # NilRule THEN NamedGet(n, name) ELSE Error(ErrUnkRule)

\* Named.GetOrNoop
NamedGetOrNoop(n, name) == IF name \in DOMAIN n THEN n[name] ELSE Noop

RuleNames == {"r1", "r2"}
NamedRules == {Required, Error(ErrCustom), NilRule}

InitNamed ==
    /\ op = "named"
    /\ nreg = NewNamed /\ nhist = <<>> /\ nmode = "" /\ nname = "" /\ nres = Noop
    /\ IdleValidate /\ IdleRule /\ IdleStruct /\ IdleShare /\ IdleClassify

CallSet ==
    /\ op = "named" /\ Len(nhist) < MaxSets
    /\ \E name \in RuleNames, rule \in NamedRules :
        /\ nreg' = NamedSet(nreg, name, rule)
        /\ nhist' = Append(nhist, [name |-> name, rule |-> rule])
        /\ nname' = name
    /\ nmode' = "Set"
    /\ UNCHANGED <<op, nres, dvars, rvars, svars, hvars, cvars>>

CallGet ==
    /\ op = "named"
    /\ \E name \in RuleNames :
        /\ nres' = NamedGet(nreg, name)
        /\ nname' = name
    /\ nmode' = "Get"
    /\ UNCHANGED <<op, nreg, nhist, dvars, rvars, svars, hvars, cvars>>

CallGetOrNoop ==
    /\ op = "named"
    /\ \E name \in RuleNames :
        /\ nres' = NamedGetOrNoop(nreg, name)
        /\ nname' = name
    /\ nmode' = "GetOrNoop"
    /\ UNCHANGED <<op, nreg, nhist, dvars, rvars, svars, hvars, cvars>>

CallGetOrError ==
    /\ op = "named"
    /\ \E name \in RuleNames :
        /\ nres' = NamedGetOrError(nreg, name)
        /\ nname' = name
    /\ nmode' = "GetOrError"
    /\ UNCHANGED <<op, nreg, nhist, dvars, rvars, svars, hvars, cvars>>

NextNamed == CallSet \/ CallGet \/ CallGetOrNoop \/ CallGetOrError

SpecNamed == InitNamed /\ [][NextNamed]_vars

\* The Set calls made for the name looked up, and the rule of the last one.
SetsOf(name) == {k \in 1..Len(nhist) : nhist[k].name = name}
LastSet(name) == nhist[CHOOSE k \in SetsOf(name) : \A j \in SetsOf(name) : j <= k].rule
Usable(rule) ==
    rule # NilRule /\ \A v \in {NilV, StrAbc, StrEmpty} : RuleValidate(rule, v) # Panic

\* C20 (as stated): after any Set calls, Get(name) returns the rule of the
\* last Set for the name and nil when there was none; GetOrNoop(name) and
\* GetOrError(name) return a usable rule that is not nil: the registered
\* rule when the name was set, else a rule that accepts every value,
\* respectively one that fails every value with ErrUnkRule.
C20_NamedLookup ==
    /\ (op = "named" /\ nmode = "Get") =>
          nres = IF SetsOf(nname) = {} THEN NilRule ELSE LastSet(nname)
    /\ (op = "named" /\ nmode = "GetOrNoop") =>
          /\ Usable(nres)
          /\ IF SetsOf(nname) # {} THEN nres = LastSet(nname)
             ELSE \A v \in {NilV, StrAbc, StrEmpty} : RuleValidate(nres, v) = NoErr
    /\ (op = "named" /\ nmode = "GetOrError") =>
          /\ Usable(nres)
          /\ IF SetsOf(nname) # {} THEN nres = LastSet(nname)
             ELSE \A v \in {NilV, StrAbc, StrEmpty} :
                     RuleValidate(nres, v) = ErrUnkRule

(***************************************************************************)
(* Determinism, stated over SpecRule.  A Go map is iterated in no          *)
(* specified order: the same map, and the same Map rule, are met with      *)
(* their keys in either order.                                             *)
(***************************************************************************)
\* The orders in which a second run can meet the entries of the value.
ValueOrders(v) == IF v.kind = "map" THEN {v, MapRev(v)} ELSE {v}

\* The orders in which a second run can meet the bindings of the rule.
RuleOrders(r) ==
    IF r.kind = "map" THEN {r, [r EXCEPT !.keys = Reverse(r.keys)]} ELSE {r}

\* C21 (as stated): validating the same value again with the same rule
\* yields the same result, in whatever order the entries of the map and
\* the bindings of the Map rule are iterated.
C21_Deterministic ==
    (RDone /\ rrule.kind \in {"each", "map", "set"}) =>
        \A r \in RuleOrders(rrule), v \in ValueOrders(rval) :
            RuleValidate(r, v) = rres

(***************************************************************************)
(* Bindings behind pointers.  Key and Field return *KeyRules and           *)
(* *FieldRules; Optional, RequiredWhen and Tag have pointer receivers and  *)
(* write through them; Map keeps the *KeyRules it is given.  heap holds    *)
(* the bindings by address (the index), hmap the MapRule values built      *)
(* (each with the addresses of its bindings), hcall the last call with the *)
(* heap and the Map rules as they were before it.                          *)
(***************************************************************************)
MaxObjs == 2

ShareKeys == {StrKey(<<"a">>), StrKey(<<"c">>)}
ShareTags == {"json", "custom"}
ShareValues == {MapStrBlank, NilV}

IsKeyRules(o) == "key" \in DOMAIN o
IsFieldRules(o) == "fieldPtr" \in DOMAIN o

\* The MapRule value mr with the bindings its pointers lead to in heap h.
MapAt(h, mr) ==
    [Map([k \in 1..Len(mr.keys) |-> h[mr.keys[k]]])
        EXCEPT !.allowUnknown = mr.allowUnknown]

HCall(m, recv) == [m |-> m, recv |-> recv, heap0 |-> heap, maps0 |-> hmap]

InitShare ==
    /\ op = "share"
    /\ heap = <<>> /\ hmap = <<>> /\ hcall = [m |-> ""]
    /\ IdleValidate /\ IdleRule /\ IdleStruct /\ IdleNamed /\ IdleClassify

\* k := Key(key, Required)
NewKey ==
    /\ op = "share" /\ Len(heap) < MaxObjs
    /\ \E key \in ShareKeys : heap' = Append(heap, Key(key, <<Required>>))
    /\ hcall' = HCall("Key", Len(heap) + 1)
    /\ UNCHANGED <<op, hmap, dvars, rvars, svars, nvars, cvars>>

\* f := Field(&s.FStr, Required)
NewField ==
    /\ op = "share" /\ Len(heap) < MaxObjs
    /\ heap' = Append(heap, Field(PtrAt(ABase, TString, StrEmpty), <<Required>>))
    /\ hcall' = HCall("Field", Len(heap) + 1)
    /\ UNCHANGED <<op, hmap, dvars, rvars, svars, nvars, cvars>>

\* k.Optional(): r.optional = true; return r
CallOptional ==
    /\ op = "share"
    /\ \E a \in 1..Len(heap) :
        /\ IsKeyRules(heap[a])
        /\ heap' = [heap EXCEPT ![a] = Optional(heap[a])]
        /\ hcall' = HCall("Optional", a)
    /\ UNCHANGED <<op, hmap, dvars, rvars, svars, nvars, cvars>>

\* k.RequiredWhen(condition): r.optional = !condition; return r
CallRequiredWhen ==
    /\ op = "share"
    /\ \E a \in 1..Len(heap), condition \in BOOLEAN :
        /\ IsKeyRules(heap[a])
        /\ heap' = [heap EXCEPT ![a] = RequiredWhen(heap[a], condition)]
        /\ hcall' = HCall("RequiredWhen", a)
    /\ UNCHANGED <<op, hmap, dvars, rvars, svars, nvars, cvars>>

\* f.Tag(tag): fr.tag = tag; return fr
CallTag ==
    /\ op = "share"
    /\ \E a \in 1..Len(heap), tag \in ShareTags :
        /\ IsFieldRules(heap[a])
        /\ heap' = [heap EXCEPT ![a] = Tag(heap[a], tag)]
        /\ hcall' = HCall("Tag", a)
    /\ UNCHANGED <<op, hmap, dvars, rvars, svars, nvars, cvars>>

\* m := Map(k...): kr[k.key] = k, the pointers themselves are kept
MakeMap ==
    /\ op = "share" /\ Len(hmap) < MaxObjs
    /\ \E ks \in SeqsUpTo({a \in 1..Len(heap) : IsKeyRules(heap[a])}, MaxKeys) :
        hmap' = Append(hmap, [keys |-> ks, allowUnknown |-> FALSE])
    /\ hcall' = HCall("Map", Len(hmap) + 1)
    /\ UNCHANGED <<op, heap, dvars, rvars, svars, nvars, cvars>>

\* m2 := m.AllowUnknown(): the value receiver is a copy, m stays
CallAllowUnknown ==
    /\ op = "share" /\ Len(hmap) < MaxObjs
    /\ \E i \in 1..Len(hmap) :
        /\ hmap' = Append(hmap, AllowUnknown(hmap[i]))
        /\ hcall' = HCall("AllowUnknown", i)
    /\ UNCHANGED <<op, heap, dvars, rvars, svars, nvars, cvars>>

NextShare ==
    \/ NewKey \/ NewField \/ CallOptional \/ CallRequiredWhen \/ CallTag
    \/ MakeMap \/ CallAllowUnknown

SpecShare == InitShare /\ [][NextShare]_vars

\* C22 (as stated): a customization call on a binding or on a Map rule
\* leaves its receiver as it was: after Tag, Optional or RequiredWhen the
\* binding called on is what it was before the call, after AllowUnknown the
\* Map rule called on is, and every Map rule built before the call gives
\* every value the result it gave before the call.
C22_NoMutation ==
    /\ hcall.m \in {"Optional", "RequiredWhen", "Tag"} =>
          heap[hcall.recv] = hcall.heap0[hcall.recv]
    /\ hcall.m = "AllowUnknown" => hmap[hcall.recv] = hcall.maps0[hcall.recv]
    /\ hcall.m \in {"Optional", "RequiredWhen", "Tag", "AllowUnknown"} =>
          \A i \in 1..Len(hcall.maps0), v \in ShareValues :
              RuleValidate(MapAt(heap, hmap[i]), v)
                  = RuleValidate(MapAt(hcall.heap0, hcall.maps0[i]), v)

(***************************************************************************)
(* The classifiers IsEmpty, IsNil and Indirect applied to values of every  *)
(* shape: cv is the value, cfn the function called, cout what it returned. *)
(***************************************************************************)
BoolV(b) == Val("bool", <<"bool">>, FALSE, IF b THEN 1 ELSE 0, "", {}, <<>>, <<>>, NoErr)
ChanV(isnil) == Val("chan", <<"chan", "int">>, isnil, 0, "", {}, <<>>, <<>>, NoErr)
FuncV(isnil) == Val("func", <<"func">>, isnil, 0, "", {}, <<>>, <<>>, NoErr)
NilSlice == [SliceOf(<<"string">>, {}, <<>>) EXCEPT !.isnil = TRUE]
\* time.Time: a struct with fields and IsZero()
TimeV(zero) ==
    [StructOf(<<"time", "Time">>, 3, StrEmpty)
        EXCEPT !.caps = {IF zero THEN "IsZeroTrue" ELSE "IsZeroFalse"}]
\* sql.NullInt64{Int64: n, Valid: valid}: Value() is nil when invalid
NullInt64(n, valid) ==
    [StructOf(<<"sql", "NullInt64">>, 2, StrEmpty)
        EXCEPT !.caps = {"Valuer"}, !.under = <<IF valid THEN IntV(n) ELSE NilV>>]
\* a driver.Valuer whose Value() returns an error
ValuerErr == [StructOf(<<"ValuerErr">>, 1, StrEmpty) EXCEPT !.caps = {"Valuer"}]
\* a nullable string with both IsZero() (not valid) and Value() (the text):
\* the valid empty text
NullStrValid ==
    [StructOf(<<"null", "String">>, 2, StrEmpty)
        EXCEPT !.caps = {"IsZeroFalse", "Valuer"}, !.under = <<StrEmpty>>]
\* struct{ A, B string }{}: fields declared, all zero
TwoStrZero == StructOf(<<"TwoStr">>, 2, StrEmpty)

\* &v: the method set of *T holds the methods of T
AddrOf(v) ==
    [PtrTo(v) EXCEPT !.caps = v.caps \cap {"IsZeroTrue", "IsZeroFalse", "Valuer"},
                     !.under = v.under]

ClassBase ==
    {IntV(0), IntV(1), BoolV(FALSE), BoolV(TRUE), StrEmpty, StrAbc,
     SliceStr, SliceOf(<<"string">>, {}, <<>>), NilSlice,
     MapStrBlank, MapOf(<<"string", "string">>, {}, <<>>, <<>>), NilMapStr,
     ArrayOf(<<"string">>, {}, <<>>), ArrayOf(<<"string">>, {}, <<StrEmpty>>),
     StructEmpty, TwoStr, TwoStrZero, ChanV(TRUE), ChanV(FALSE),
     FuncV(TRUE), FuncV(FALSE), TimeV(TRUE), TimeV(FALSE),
     NullInt64(0, FALSE), NullInt64(0, TRUE), NullInt64(1, TRUE),
     ValuerErr, NullStrValid}

ClassValues ==
    {NilV, NilPtr(<<"string">>), PtrTo(PtrTo(StrEmpty)), PtrTo(NilPtr(<<"string">>))}
    \cup ClassBase \cup {AddrOf(v) : v \in ClassBase}

InitClassify ==
    /\ op = "classify"
    /\ cv \in ClassValues /\ cfn = "" /\ cout = <<>>
    /\ IdleValidate /\ IdleRule /\ IdleStruct /\ IdleNamed /\ IdleShare

CallIsEmpty ==
    /\ op = "classify" /\ cfn = ""
    /\ cfn' = "IsEmpty" /\ cout' = <<IsEmpty(cv)>>
    /\ UNCHANGED <<op, cv, dvars, rvars, svars, nvars, hvars>>

CallIsNil ==
    /\ op = "classify" /\ cfn = ""
    /\ cfn' = "IsNil" /\ cout' = IsNil(cv)
    /\ UNCHANGED <<op, cv, dvars, rvars, svars, nvars, hvars>>

CallIndirect ==
    /\ op = "classify" /\ cfn = ""
    /\ cfn' = "Indirect" /\ cout' = <<Indirect(cv)>>
    /\ UNCHANGED <<op, cv, dvars, rvars, svars, nvars, hvars>>

NextClassify == CallIsEmpty \/ CallIsNil \/ CallIndirect

SpecClassify == InitClassify /\ [][NextClassify]_vars

IsNilCase(v) == v.kind = "invalid" \/ (v.kind \in RefKinds /\ v.isnil)
HasValue(v) == "Valuer" \in v.caps /\ v.under # <<>>
LenKinds == {"string", "array", "slice", "map"}

RECURSIVE EmptyCase(_)
\* The cases listed, as alternatives: any one of them makes the value empty.
EmptyCase(v) ==
    \/ IsNilCase(v)
    \/ "IsZeroTrue" \in v.caps
    \/ HasValue(v) /\ EmptyCase(v.under[1])
    \/ v.kind \in {"int", "bool"} /\ v.n = 0
    \/ v.kind \in LenKinds /\ v.n = 0
    \/ v.kind = "ptr" /\ ~v.isnil /\ EmptyCase(v.elems[1])
    \/ v.kind = "struct" /\ v.n = 0

RECURSIVE EmptyFirst(_)
\* The cases in the order the code asks: the first that applies decides.
EmptyFirst(v) ==
    IF IsNilCase(v) THEN TRUE
    ELSE IF v.caps \cap {"IsZeroTrue", "IsZeroFalse"} # {} THEN "IsZeroTrue" \in v.caps
    ELSE IF HasValue(v) THEN EmptyFirst(v.under[1])
    ELSE \/ v.kind \in {"int", "bool"} /\ v.n = 0
         \/ v.kind \in LenKinds /\ v.n = 0
         \/ v.kind = "ptr" /\ EmptyFirst(v.elems[1])
         \/ v.kind = "struct" /\ v.n = 0

PlainRecord(v) ==
    v.kind = "struct" /\ v.n > 0
        /\ v.caps \cap {"IsZeroTrue", "IsZeroFalse", "Valuer"} = {}

C24_IsNil ==
    cfn = "IsNil" =>
        /\ cout[1] <=> cv.kind = "invalid"
        /\ cout[2] <=> (cv.kind \in RefKinds /\ cv.isnil)
        /\ ~IsNilCase(cv) => cout = <<FALSE, FALSE>>

(***************************************************************************)
(* Properties of the end of Validate.                                      *)
(***************************************************************************)
\* Every rule passed on a value that is not nil, has no Validate() of its
\* own and is no container of self-validating elements.
PlainCase ==
    /\ Done /\ AllPass
    /\ ~IsNilCase(dv0)
    /\ "Validator" \notin dv0.caps
    /\ ~(dv0.kind \in {"map", "slice", "array"} /\ "ElemValidator" \in dv0.caps)

\* C25 (as stated): in that case Validate returns nil and calls no
\* Validate(), of the value, of what it points to or of an element.
C25_NothingFurther ==
    PlainCase => dres = NoErr /\ Calls("self") = {} /\ Calls("elem") = {}

\* C25 (amended): in that case a value that is no pointer gets nil and no
\* Validate() is called; a non-nil pointer without Validate() is followed,
\* and the call returns what Validate(referent) without rules returns.
C25_PointerFollowed ==
    PlainCase =>
        IF dv0.kind = "ptr"
        THEN dres = Validate(dv0.elems[1], <<>>)
        ELSE dres = NoErr /\ Calls("self") = {} /\ Calls("elem") = {}

\* A pointer to &ModelPtr{"xyz"}, and a struct without methods.
C25_Witness ==
    /\ PlainCase
    /\ \/ dv0 = PtrTo(ModelPtrBad) /\ dres = ErrFStrAbc /\ Calls("self") # {}
       \/ dv0 = TwoStr /\ Len(drules0) = MaxRules

\* C26 (as stated): in the recursion into a map, slice or array of
\* self-validating elements, a nil element (nil pointer or nil interface)
\* has no Validate() called and gets no entry in the result.
C26_NilElemSkipped ==
    (op = "validate" /\ AllPass /\ dv0.kind \in {"map", "slice", "array"}
        /\ "ElemValidator" \in dv0.caps /\ "Validator" \notin dv0.caps) =>
        \A k \in 1..Len(dv0.elems) :
            IsNilCase(dv0.elems[k]) =>
                /\ \A j \in Calls("elem") : dlog[j].i # k
                /\ Done => dres # Panic
                /\ (Done /\ dres.kind = "fields") =>
                      PathKeyOf(k) \notin DOMAIN dres.fields

(***************************************************************************)
(* What Each hands to its rules.                                           *)
(***************************************************************************)
\* Each on a map keyed by strings or integers, a slice or an array.
EachCase ==
    /\ RDone /\ rrule.kind = "each"
    /\ rval.kind \in {"map", "slice", "array"}
    /\ rval.kind = "map" => rval.typ[2] \in {"string", "int"}

\* The element at position i with its pointer followed.
Unwrapped(i) ==
    IF IsNilElem(rval.elems[i]) THEN NilV
    ELSE IF rval.elems[i].kind = "ptr" THEN rval.elems[i].elems[1]
    ELSE rval.elems[i]

\* The error reported for the element at position i, nil when none is.
EachEntry(i) ==
    IF rres.kind = "fields" /\ EachKeyName(i) \in DOMAIN rres.fields
    THEN rres.fields[EachKeyName(i)]
    ELSE NoErr

\* C27 (as stated): Each gives the rules every element dereferenced: the
\* value a non-nil pointer element refers to, the untyped nil for a nil
\* pointer or nil interface element.  Stated for elements without a
\* Validate() of their own, where the rules alone decide the entry.
C27_EachUnwraps ==
    EachCase =>
        \A i \in 1..Len(rval.elems) :
            "Validator" \notin rval.elems[i].caps =>
                EachEntry(i) = Validate(Unwrapped(i), rrule.rules)

\* C27 (amended): Each gives the rules every element as it is stored: a
\* non-nil pointer element as that pointer, the value held by an interface
\* slot as that value; a nil pointer or nil interface element as the
\* untyped nil, so that Required fails on it.
C27_EachHands ==
    EachCase =>
        \A i \in 1..Len(rval.elems) :
            /\ EachEntry(i) = Validate(Handed(i), rrule.rules)
            /\ (IsNilElem(rval.elems[i]) /\ rrule.rules # <<>>
                   /\ rrule.rules[1] = Required) => EachEntry(i) = ErrReq

\* []*string{nil, &"abc"} under a function that wants a pointer: the nil
\* element arrives as the untyped nil and fails, the other arrives as the
\* pointer and passes.
C27_Witness ==
    /\ EachCase /\ rrule = Each(<<By("PtrOnly")>>) /\ rval = SlicePtrStr
    /\ rres = Fields((<<"0">> :> ErrCustom))

(***************************************************************************)
(* The key types of a Map rule's bindings.                                 *)
(***************************************************************************)
\* The binding's key can be assigned to the map's key type: it is of that
\* type, or the key type is an interface.
KeyFitsMap(kr) == MapArg.typ[2] = "any" \/ kr.key.kind = MapArg.typ[2]

KeyTypeError(kr) == Prefixed(getErrorKeyName(kr.key), ErrInvKeyType, ECInternal)

BindingsOf(r) == {r.keys[k] : k \in 1..Len(r.keys)}

\* C28 (as stated): on a non-nil map, the key-type internal error (code
\* ECInternal, prefixed with the key, the sole result) is returned for a
\* binding exactly when its key is not assignable to the map's key type; a
\* binding whose key is assignable, any key on a map keyed by an interface
\* included, is never rejected for its type.
C28_KeyType ==
    (RDone /\ rrule.kind = "map" /\ MapArg.kind = "map" /\ ~MapArg.isnil) =>
        /\ \A kr \in BindingsOf(rrule) : KeyFitsMap(kr) => rres # KeyTypeError(kr)
        /\ ((\E kr \in BindingsOf(rrule) : ~KeyFitsMap(kr))
              /\ (\A kr \in BindingsOf(rrule) : \A n \in 1..Len(kr.rules) : kr.rules[n] # By("Internal")))
             => \E kr \in BindingsOf(rrule) : ~KeyFitsMap(kr) /\ rres = KeyTypeError(kr)

(***************************************************************************)
(* A When rule whose branch is empty.                                      *)
(***************************************************************************)
\* When(false, R) without Else rules, or When(true) without rules.
NothingToRun ==
    /\ RDone /\ rrule.kind = "when"
    /\ IF rrule.condition THEN rrule.rules = <<>> ELSE rrule.elseRules = <<>>

\* C29 (as stated): a When rule with nothing to run returns nil for every
\* value, self-validating values included.
C29_WhenIdle == NothingToRun => rres = NoErr

\* C29 (amended): a When rule with nothing to run returns nil exactly when
\* Validate(v) without rules does: the value's own Validate() and the
\* recursion into self-validating elements still run, and their error
\* comes back (as it is when neither Error nor Code was called).
C29_WhenIdleSelf ==
    NothingToRun =>
        /\ rres = NoErr <=> Validate(rval, <<>>) = NoErr
        /\ (CustomErr = NoErr /\ CustomCode = "") => rres = Validate(rval, <<>>)

\* When(false, Required) on &ModelPtr{"xyz"}: Required is not run, the
\* value's Validate() is, and its error is returned.
C29_Witness ==
    /\ NothingToRun /\ rrule = When(FALSE, <<Required>>)
    /\ rval = ModelPtrBad /\ rres = ErrFStrAbc

(***************************************************************************)
(* The entry points together: rules on values, Validate, ValidateStruct    *)
(* and ValidateNamed, which puts the result of Set(rules).Validate(v), the *)
(* run of Validate(v, rules...), under the name and filters it.            *)
(***************************************************************************)
NamedPath == <<"v">>

\* return xrr.Fields{name: Set(rules).Validate(v)}.Filter()
VNamedReturn ==
    /\ Done
    /\ dres' = IF dres = Panic THEN Panic ELSE FieldsFilter((NamedPath :> dres))
    /\ dpc' = "named"
    /\ UNCHANGED <<op, dv0, drules0, dv, drules, di, dk, ders, dlog, rvars, svars, nvars, hvars, cvars>>

InitEngine == InitRuleSpec \/ InitValidate \/ InitStruct

NextEngine == NextRule \/ NextValidate \/ NextStruct \/ VNamedReturn

SpecEngine == InitEngine /\ [][NextEngine]_vars

RECURSIVE Populated(_)
\* An error that is no Fields, or a Fields with at least one entry, every
\* entry an error and itself populated.
Populated(e) ==
    e.kind = "fields" =>
        /\ DOMAIN e.fields # {}
        /\ \A k \in DOMAIN e.fields : e.fields[k] # NoErr /\ Populated(e.fields[k])

\* C30: what a rule (Each and Map among them), Validate with its container
\* recursion, ValidateStruct and ValidateNamed return is never a Fields
\* error without entries nor one holding a nil entry, at any depth: Each
\* over zero elements, a Map rule with every key covered and valid, and a
\* call in which nothing fails return nil.
C30_NoEmptyFields ==
    /\ Populated(rres) /\ Populated(dres) /\ Populated(sres)
    /\ (RDone /\ rrule.kind = "each" /\ rval.kind \in {"map", "slice", "array"}
           /\ rval.elems = <<>>) => rres = NoErr
    /\ (op = "validate" /\ dpc = "named" /\ dres # Panic) =>
           \/ dres = NoErr
           \/ dres.kind = "fields" /\ DOMAIN dres.fields = {NamedPath}

\* Map(Key("a", Required), Key("b").RequiredWhen(false)) on
\* map[string]string{"a": "abc", "b": ""}: every key is covered and valid,
\* the Fields made for the unexpected keys stays empty and nil is returned.
C30_Witness ==
    /\ RDone /\ rrule.kind = "map" /\ ~rrule.allowUnknown
    /\ Len(rrule.keys) = 2 /\ rval = MapStrBlank
    /\ rres = NoErr

====
